---- MODULE Spec2Model ----
(***************************************************************************)
(* CATS: the California Transportation Supply model.                       *)
(*                                                                         *)
(* The model covers the domain registries of backend/datatypes.py, the     *)
(* loader of backend/data.py, the linear-program builder of                *)
(* backend/setuplp.py and the year loop of runopt.py.                      *)
(*                                                                         *)
(* Numbers.  Python floats are modelled by exact integer arithmetic:       *)
(*   - energy is counted in units of 1e5 MJ, so the materiality threshold  *)
(*     1e9 MJ is 10000 and the facility floor 50e6 x 115.83 MJ is 57915;   *)
(*   - percentages (production change limits, blend shares) are whole      *)
(*     percents, so 0.40 is 40 and (1 - p) x v is ((100 - p) x v) / 100;   *)
(*   - carbon-intensity coefficients are kept in units of 1e-6;            *)
(*   - the feasibility tolerance is counted in units of 1e-6;              *)
(*   - float('inf') is the number Inf, larger than every modelled value,   *)
(*     and None for a year is NoYear.                                      *)
(* A Python dict is a sequence of <<key, value>> pairs in insertion order. *)
(* An entity held in two places (a Fuel in Fuel.fuels and in the loader's  *)
(* fuels map) is held once, in its registry, and named elsewhere.          *)
(***************************************************************************)
EXTENDS Integers, Sequences, FiniteSets, TLC

VARIABLES
    registry,    \* the class-level registries of datatypes.py
    data,        \* the Loader
    model,       \* the fields of the Model
    solver,      \* the pywraplp solver: variables, objective, solution
    pc,          \* where the program is
    call,        \* the running optimize call: its caller and its increment_time flag
    runstate,    \* the locals of runopt.run
    calls,       \* the calls made to the model so far, by name
    raised,      \* the exception that ended the program, "" when none
    workbook,    \* the scenario workbook the loader reads
    returned     \* the call of Loader.get_blends and what it answered, <<>> before it is asked

vars == <<registry, data, model, solver, pc, call, runstate, calls, raised, workbook, returned>>

----------------------------------------------------------------------------
(* Bounds of the exploration *)

MaxCalls == 3
MaxYears == 1
\* results are saved after fewer than this many calls of the model
MaxCallsBeforeSave == 2

----------------------------------------------------------------------------
(* Program constants *)

Inf == 1000000000
NoYear == 0
Threshold == 10000
FloorVolume == 57915
InitialTolerance == 1
ToleranceCeiling == 10000000
DefaultProductionLimit == 40
SlackPenalty == 100000

NoneNumber == -1000000001
None == "None"
NaN == "nan"
\* the NaN of an empty numeric cell, and of arithmetic with it
NaNNumber == -1000000002

----------------------------------------------------------------------------
(* Python dicts and lists *)

\* binds a value to a name; the value is computed before Op is applied to it
With(v, Op(_)) == IF v = v THEN Op(v) ELSE Op(v)

\* a loop over a list: acc = Op(acc, item) for each item in turn
Fold(Op(_, _), acc, s) ==
    LET it[i \in 0..Len(s)] ==
            IF i = 0 THEN acc ELSE With(it[i - 1], LAMBDA prev : Op(prev, s[i]))
    IN it[Len(s)]

Has(d, k) == \E i \in 1..Len(d) : d[i][1] = k
Idx(d, k) == CHOOSE i \in 1..Len(d) : d[i][1] = k
Get(d, k) == d[Idx(d, k)][2]
Put(d, k, v) == IF Has(d, k) THEN [d EXCEPT ![Idx(d, k)] = <<k, v>>] ELSE Append(d, <<k, v>>)
Keys(d) == [i \in 1..Len(d) |-> d[i][1]]
Values(d) == [i \in 1..Len(d) |-> d[i][2]]
InList(s, x) == \E i \in 1..Len(s) : s[i] = x

Abs(x) == IF x < 0 THEN -x ELSE x
Max2(a, b) == IF a >= b THEN a ELSE b
Min2(a, b) == IF a <= b THEN a ELSE b

\* int(a / b) of Python: true division, then truncation toward zero
IntDiv(a, b) ==
    IF (a >= 0) = (b > 0) THEN Abs(a) \div Abs(b) ELSE -(Abs(a) \div Abs(b))

\* min(items, key = |search - key|): the first of the nearest keys
closest_value(search, items) ==
    items[CHOOSE i \in 1..Len(items) :
            \A j \in 1..Len(items) :
                \/ Abs(search - items[i]) < Abs(search - items[j])
                \/ Abs(search - items[i]) = Abs(search - items[j]) /\ i <= j]

----------------------------------------------------------------------------
(* datatypes.py: the registries *)

EmptyRegistry ==
    [Fuel |-> <<>>, FuelPool |-> <<>>, Coproducts |-> <<>>,
     PP_feedstock |-> <<>>, PP_fuels |-> <<>>, period |-> NoYear,
     Credit |-> <<>>, Feedstock |-> <<>>, BlendRequirement |-> <<>>, LCFS |-> <<>>]

\* A step of a load: the registries, the loader and the exception raised, if any
Raise(S, e) == [S EXCEPT !.err = e]

\* FuelPool.__init__
FuelPool_init(name) == [name |-> name, demand |-> <<>>, exceed |-> FALSE]

FuelPool_add_pool(R, name) ==
    IF Has(R.FuelPool, name) THEN R
    ELSE [R EXCEPT !.FuelPool = Append(@, <<name, FuelPool_init(name)>>)]

\* what add_pool returns: the pool found by the try, or the new one
FuelPool_add_pool_return(R, name) ==
    IF Has(R.FuelPool, name) THEN Get(R.FuelPool, name) ELSE FuelPool_init(name)

FuelPool_add_demand(R, name, year, amount, exceed) ==
    LET p == Get(R.FuelPool, name)
    IN [R EXCEPT !.FuelPool = Put(@, name, [p EXCEPT !.demand = Put(@, year, amount), !.exceed = exceed])]

\* FuelPool.__getitem__: the demand of the nearest year that has one
FuelPool_getitem(R, name, year) ==
    LET d == Get(R.FuelPool, name).demand
    IN Get(d, closest_value(year, Keys(d)))

\* Feedstock.__init__
Feedstock_init(name) == [name |-> name, supply |-> <<>>]

\* an add that registers a new feedstock over the one already there
Feedstock_add_feedstock_overwriting(R, name) ==
    [R EXCEPT !.Feedstock = Put(@, name, Feedstock_init(name))]

Feedstock_add_feedstock(R, name) ==
    IF Has(R.Feedstock, name) THEN R
    ELSE [R EXCEPT !.Feedstock = Append(@, <<name, Feedstock_init(name)>>)]

Feedstock_add_feedstock_return(R, name) ==
    IF Has(R.Feedstock, name) THEN Get(R.Feedstock, name) ELSE Feedstock_init(name)

Feedstock_add_supply(R, name, price, quantity) ==
    LET f == Get(R.Feedstock, name)
    IN [R EXCEPT !.Feedstock = Put(@, name, [f EXCEPT !.supply = Put(@, price, quantity)])]

Feedstock_get_cumulative(f, price) ==
    LET end_point == closest_value(price, Keys(f.supply))
    IN Fold(LAMBDA acc, kv : IF kv[1] <= end_point THEN acc + kv[2] ELSE acc, 0, f.supply)

SeqMax(s) == Fold(LAMBDA acc, x : Max2(acc, x), s[1], s)

\* Feedstock.Ub: the largest cumulative supply, 0 for a feedstock without tiers
Feedstock_Ub(f) ==
    IF f.supply = <<>> THEN 0
    ELSE SeqMax([i \in 1..Len(f.supply) |-> Feedstock_get_cumulative(f, f.supply[i][1])])

\* Fuel.add_fuel: err is set when a new fuel names an undefined pool
Fuel_init(name, fuelpool) == [name |-> name, fuelpool |-> fuelpool, limits |-> <<>>, supply |-> <<>>]

Fuel_add_fuel(S, name, fuelpool) ==
    IF Has(S.reg.Fuel, name) THEN S
    ELSE IF ~Has(S.reg.FuelPool, fuelpool) THEN Raise(S, "TypeError")
    ELSE [S EXCEPT !.reg.Fuel = Append(@, <<name, Fuel_init(name, fuelpool)>>)]

Fuel_add_fuel_return(R, name, fuelpool) ==
    IF Has(R.Fuel, name) THEN Get(R.Fuel, name) ELSE Fuel_init(name, fuelpool)

Fuel_add_limit(R, name, year, max_amount, pct_change) ==
    LET f == Get(R.Fuel, name)
    IN [R EXCEPT !.Fuel = Put(@, name, [f EXCEPT !.limits = Put(@, year, <<max_amount, pct_change>>)])]

Fuel_add_supply(R, name, year, amount, attribution) ==
    LET f == Get(R.Fuel, name)
    IN [R EXCEPT !.Fuel = Put(@, name, [f EXCEPT !.supply = Put(@, year, <<amount, attribution>>)])]

Credit_init(name) == [name |-> name, limits |-> <<>>, supply |-> <<>>]

Credit_add_credit(R, name) ==
    IF Has(R.Credit, name) THEN R
    ELSE [R EXCEPT !.Credit = Append(@, <<name, Credit_init(name)>>)]

Credit_add_credit_return(R, name) ==
    IF Has(R.Credit, name) THEN Get(R.Credit, name) ELSE Credit_init(name)

Credit_add_limit(R, name, year, minimum, maximum) ==
    LET c == Get(R.Credit, name)
    IN [R EXCEPT !.Credit = Put(@, name, [c EXCEPT !.limits = Put(@, year, <<minimum, maximum>>)])]

Credit_add_supply(R, name, year, amount) ==
    LET c == Get(R.Credit, name)
    IN [R EXCEPT !.Credit = Put(@, name, [c EXCEPT !.supply = Put(@, year, amount)])]

LCFS_add_benchmark(R, year, benchmark, standard) ==
    LET bm == IF Has(R.LCFS, benchmark) THEN Get(R.LCFS, benchmark)
              ELSE [name |-> benchmark, standards |-> <<>>]
    IN [R EXCEPT !.LCFS = Put(@, benchmark, [bm EXCEPT !.standards = Put(@, year, standard)])]

\* LCFS.__getitem__: the standard of the nearest year that has an entry
LCFS_getitem(bm, year) == Get(bm.standards, closest_value(year, Keys(bm.standards)))

\* ProductionPathway._generate_costs: cost key int((cost + price) / yields)
generate_costs(f, conversioncost, yields) ==
    Fold(LAMBDA acc, kv : Put(acc, IntDiv(conversioncost + kv[1], yields), yields * kv[2]),
         <<>>, f.supply)

GetOr(d, k, dflt) == IF Has(d, k) THEN Get(d, k) ELSE dflt

PP_registered(R, fuel, feedstock, year) ==
    /\ Has(R.PP_fuels, fuel)
    /\ Has(Get(R.PP_fuels, fuel), feedstock)
    /\ InList(Get(Get(R.PP_fuels, fuel), feedstock), year)

\* ProductionPathway.__init__: the fields of a new pathway
ProductionPathway_init(R, row) ==
    [year |-> row.year, fuel |-> row.fuel, feedstock |-> row.feedstock,
     subsidy |-> 0, yields |-> row.yields, conversioncost |-> row.cost,
     ci |-> row.ci, credit |-> row.credit, benchmark |-> row.benchmark,
     blend |-> row.blend, eer |-> row.eer,
     results |-> [raggregator |-> row.raggregator,
                  rmultiplier |-> row.rmultiplier, runits |-> row.runits],
     supplycurve |-> generate_costs(Get(R.Feedstock, row.feedstock), row.cost, row.yields)]

\* what add_pathway returns: the pathway registered for the year, or the new one
ProductionPathway_add_pathway_return(R, row) ==
    IF PP_registered(R, row.fuel, row.feedstock, row.year)
    THEN Get(Get(Get(R.PP_feedstock, row.feedstock), row.fuel), row.year)
    ELSE ProductionPathway_init(R, row)

\* ProductionPathway.__init__ and the registration in add_pathway
ProductionPathway_add_pathway(S, row) ==
    IF PP_registered(S.reg, row.fuel, row.feedstock, row.year) THEN S
    ELSE IF ~Has(S.reg.Feedstock, row.feedstock) THEN Raise(S, "KeyError")
    ELSE With(Fuel_add_fuel([S EXCEPT !.reg = Credit_add_credit(@, row.credit)], row.fuel, row.fuelpool),
              LAMBDA S2 :
      LET pw == ProductionPathway_init(S.reg, row)
          byfs == GetOr(S2.reg.PP_feedstock, row.feedstock, <<>>)
          byfu == GetOr(S2.reg.PP_fuels, row.fuel, <<>>)
      IN IF S2.err # "" THEN S2
         ELSE IF row.yields = 0 /\ Get(S.reg.Feedstock, row.feedstock).supply # <<>>
              THEN Raise(S2, "ZeroDivisionError")
         ELSE [S2 EXCEPT
                 !.reg.PP_fuels = Put(@, row.fuel,
                     Put(byfu, row.feedstock, Append(GetOr(byfu, row.feedstock, <<>>), row.year))),
                 !.reg.PP_feedstock = Put(@, row.feedstock,
                     Put(byfs, row.fuel, Put(GetOr(byfs, row.fuel, <<>>), row.year, pw)))])

\* an add_subsidy that keeps the last amount only
ProductionPathway_add_subsidy_last(R, fuel, feedstock, year, amount) ==
    [R EXCEPT !.PP_feedstock =
       Put(@, feedstock,
           Put(Get(@, feedstock), fuel,
               Put(Get(Get(@, feedstock), fuel), year,
                   [Get(Get(Get(@, feedstock), fuel), year) EXCEPT !.subsidy = amount])))]

ProductionPathway_add_subsidy(R, fuel, feedstock, year, amount) ==
    LET byfs == Get(R.PP_feedstock, feedstock)
        yrs == Get(byfs, fuel)
        pw == Get(yrs, year)
    IN [R EXCEPT !.PP_feedstock =
          Put(@, feedstock, Put(byfs, fuel, Put(yrs, year, [pw EXCEPT !.subsidy = @ + amount])))]

\* ProductionPathway.set_year
ProductionPathway_set_year(R, year) == [R EXCEPT !.period = year]

\* a get that ignores the current period
ProductionPathway_get_latest(R, feedstock, fuel) ==
    Get(Get(Get(R.PP_feedstock, feedstock), fuel),
        SeqMax(Keys(Get(Get(R.PP_feedstock, feedstock), fuel))))

\* ProductionPathway.get: the pathway of the year nearest to the current period
ProductionPathway_get(R, feedstock, fuel) ==
    LET pathway == Get(Get(R.PP_feedstock, feedstock), fuel)
        year == IF R.period = NoYear THEN SeqMax(Keys(pathway))
                ELSE closest_value(R.period, Keys(pathway))
    IN Get(pathway, year)

\* every (feedstock, fuel) pair's pathway as resolved for a year
PP_resolved(R, year) ==
    Fold(LAMBDA acc, item :
            Fold(LAMBDA acc2, value :
                    Append(acc2, Get(value[2], closest_value(year, Keys(value[2])))),
                 acc, item[2]),
         <<>>, R.PP_feedstock)

SelectList(s, Test(_)) == Fold(LAMBDA acc, x : IF Test(x) THEN Append(acc, x) ELSE acc, <<>>, s)

ProductionPathway_get_benchmark(R, benchmark, year) ==
    SelectList(PP_resolved(R, year), LAMBDA pw : pw.benchmark = benchmark)

ProductionPathway_get_fuel_pool(R, fuelpool, year) ==
    SelectList(PP_resolved(R, year), LAMBDA pw : Get(R.Fuel, pw.fuel).fuelpool = fuelpool)

BR_registered(R, year, fuel, fuelpool) ==
    /\ Has(R.BlendRequirement, year)
    /\ Has(Get(R.BlendRequirement, year), fuel)
    /\ Has(Get(Get(R.BlendRequirement, year), fuel), fuelpool)

\* BlendRequirement.get: raises KeyError (here: is undefined) when not registered
BlendRequirement_get(R, year, fuel, fuelpool) ==
    Get(Get(Get(R.BlendRequirement, year), fuel), fuelpool)

BlendRequirement_init(fuel, fuelpool, minimum, maximum, year) ==
    [name |-> fuel \o "_" \o fuelpool \o " (" \o ToString(minimum)
              \o ", " \o ToString(maximum) \o ")",
     requirement |-> fuel, fuelpool |-> fuelpool,
     minimum |-> minimum, maximum |-> maximum, year |-> year]

BlendRequirement_add_return(R, fuel, fuelpool, minimum, maximum, year) ==
    IF BR_registered(R, year, fuel, fuelpool) THEN BlendRequirement_get(R, year, fuel, fuelpool)
    ELSE BlendRequirement_init(fuel, fuelpool, minimum, maximum, year)

\* BlendRequirement.add: err is set when a new requirement names an undefined pool
BlendRequirement_add(S, fuel, fuelpool, minimum, maximum, year) ==
    IF BR_registered(S.reg, year, fuel, fuelpool) THEN S
    ELSE IF ~Has(S.reg.FuelPool, fuelpool) THEN Raise(S, "KeyError")
    ELSE
      LET req == BlendRequirement_init(fuel, fuelpool, minimum, maximum, year)
          byyear == GetOr(S.reg.BlendRequirement, year, <<>>)
      IN [S EXCEPT !.reg.BlendRequirement =
            Put(@, year, Put(byyear, fuel, Put(GetOr(byyear, fuel, <<>>), fuelpool, req)))]

\* the gets of the registries: an entity is held by its key; FuelPool.get,
\* Feedstock.get and Credit.get raise KeyError (here: are undefined) on a new name
FuelPool_get(R, name) == Get(R.FuelPool, name)
Feedstock_get(R, name) == Get(R.Feedstock, name)
Credit_get(R, name) == Get(R.Credit, name)
Fuel_get(R, name) == IF Has(R.Fuel, name) THEN Get(R.Fuel, name) ELSE None

\* Coproducts.__init__ holds Fuel.get of both names: the fuel (by its name), or None
Coproducts_init(R, fuel, basefuel, multiplier) ==
    [fuel |-> IF Has(R.Fuel, fuel) THEN fuel ELSE None,
     basefuel |-> IF Has(R.Fuel, basefuel) THEN basefuel ELSE None,
     multiplier |-> multiplier, exceed |-> FALSE]

Coproducts_add_coproduct(R, fuel, basefuel, multiplier) ==
    LET byb == GetOr(R.Coproducts, basefuel, <<>>)
    IN IF Has(byb, fuel) THEN R
       ELSE [R EXCEPT !.Coproducts =
               Put(@, basefuel, Put(byb, fuel, Coproducts_init(R, fuel, basefuel, multiplier)))]

Coproducts_add_coproduct_return(R, fuel, basefuel, multiplier) ==
    IF Has(GetOr(R.Coproducts, basefuel, <<>>), fuel) THEN Get(Get(R.Coproducts, basefuel), fuel)
    ELSE Coproducts_init(R, fuel, basefuel, multiplier)

Coproducts_get_all_fuels(R) ==
    Fold(LAMBDA acc, kv : Append(acc, kv[1]) \o Keys(kv[2]), <<>>, R.Coproducts)

Coproducts_which_basefuel(R, fuel) ==
    Fold(LAMBDA acc, kv : IF Has(kv[2], fuel) THEN Append(acc, kv[1]) ELSE acc, <<>>, R.Coproducts)

Coproducts_get_multiplier(R, fuel, basefuel) == Get(Get(R.Coproducts, basefuel), fuel).multiplier

----------------------------------------------------------------------------
(* data.py: the Loader.  A workbook is a record of sheets, each a sequence *)
(* of rows, as pandas reads them from scenario_inputs.xlsx.                *)

NewLoader ==
    [demand |-> <<>>, fuels |-> <<>>, feedstocks |-> <<>>, productionpathways |-> <<>>,
     credits |-> <<>>, blends |-> <<>>, lcfs |-> None, status |-> "NO DATA"]

AddName(s, x) == IF InList(s, x) THEN s ELSE Append(s, x)

\* a loader step that stops at the first exception
Step(Op(_, _), S, row) == IF S.err # "" THEN S ELSE Op(S, row)

\* a reset that empties one of the two pathway indexes
ProductionPathway_reset_fuels_only(R) == [R EXCEPT !.PP_fuels = <<>>]

\* ProductionPathway.reset: both indexes are emptied, the period is kept
ProductionPathway_reset(R) == [R EXCEPT !.PP_feedstock = <<>>, !.PP_fuels = <<>>]

\* Loader.reset: the loader's maps, then the reset of each class; self.lcfs
\* stays bound to LCFS.benchmarks once a load has bound it
Loader_reset(S) ==
    [reg |-> [ProductionPathway_reset(S.reg) EXCEPT
                 !.Fuel = <<>>, !.FuelPool = <<>>, !.LCFS = <<>>, !.Credit = <<>>,
                 !.Feedstock = <<>>, !.BlendRequirement = <<>>, !.Coproducts = <<>>],
     data |-> [NewLoader EXCEPT !.lcfs = S.data.lcfs],
     err |-> ""]

load_fuelpools_row(S, row) ==
    LET R1 == FuelPool_add_pool(S.reg, row.pool)
        R2 == FuelPool_add_demand(R1, row.pool, row.year, row.energy, row.exceed)
    IN [S EXCEPT !.reg = R2, !.data.demand = AddName(@, row.pool)]

load_feedstocks_row(S, row) ==
    LET R1 == Feedstock_add_feedstock(S.reg, row.feedstock)
        R2 == Fold(LAMBDA R, t : Feedstock_add_supply(R, row.feedstock, t[1], t[2]), R1, row.tiers)
    IN [S EXCEPT !.reg = R2, !.data.feedstocks = AddName(@, row.feedstock)]

load_production_row(S, row) ==
    With(Step(ProductionPathway_add_pathway, Fuel_add_fuel(S, row.fuel, row.fuelpool), row),
         LAMBDA S2 :
            IF S2.err # "" THEN S2
            ELSE [S2 EXCEPT
                    !.reg = ProductionPathway_add_subsidy(@, row.fuel, row.feedstock, row.year, row.subs),
                    !.data.productionpathways =
                        Put(@, row.feedstock, Append(GetOr(@, row.feedstock, <<>>), row.fuel)),
                    !.data.fuels = AddName(@, row.fuel),
                    !.data.credits = AddName(@, row.credit)])

\* Fuel.get answers None for an unknown fuel, and None has no add_supply
load_fuelsupply_row(S, row) ==
    IF ~Has(S.reg.Fuel, row.fuel) THEN Raise(S, "AttributeError")
    ELSE [S EXCEPT !.reg = Fuel_add_supply(@, row.fuel, row.year, row.energy, row.policy)]

load_fuellimits_row(S, row) ==
    IF ~InList(S.data.fuels, row.fuel) THEN Raise(S, "KeyError")
    ELSE [S EXCEPT !.reg = Fuel_add_limit(@, row.fuel, row.year, row.max, row.pct)]

\* Credit.get raises KeyError for an undefined credit program
load_creditlimits_row(S, row) ==
    IF ~Has(S.reg.Credit, row.credit) THEN Raise(S, "KeyError")
    ELSE [S EXCEPT !.reg = Credit_add_limit(@, row.credit, row.year, row.min, row.max)]

load_creditsupply_row(S, row) ==
    IF ~Has(S.reg.Credit, row.credit) THEN Raise(S, "KeyError")
    ELSE [S EXCEPT !.reg = Credit_add_supply(@, row.credit, row.year, row.quantity)]

load_lcfs_row(S, row) ==
    [S EXCEPT !.reg = LCFS_add_benchmark(@, row.year, row.benchmark, row.standard)]

load_blends_row(S, row) ==
    With(BlendRequirement_add(
             [S EXCEPT !.data.blends = IF Has(@, row.year) THEN @ ELSE Append(@, <<row.year, <<>>>>)],
             row.requirement, row.fuelpool, row.min, row.max, row.year),
         LAMBDA S1 :
            IF S1.err # "" THEN S1
            ELSE [S1 EXCEPT !.data.blends =
                    Put(@, row.year,
                        AddName(Get(@, row.year),
                                BlendRequirement_get(S1.reg, row.year, row.requirement, row.fuelpool)))])

load_coproducts_row(S, row) ==
    IF ~InList(S.data.fuels, row.fuel) \/ ~InList(S.data.fuels, row.basefuel) THEN Raise(S, "KeyError")
    ELSE [S EXCEPT !.reg = Coproducts_add_coproduct(@, row.fuel, row.basefuel, row.multiplier)]

Sheet(Op(_, _), S, xls) == Fold(LAMBDA acc, row : Step(Op, acc, row), S, xls)

\* Loader.load: reset, then the sheets in the order of the code
Loader_load(S, wb) ==
    LET S0 == Loader_reset(S)
        S1 == Sheet(load_fuelpools_row, S0, wb.demand)
        S2 == Sheet(load_feedstocks_row, S1, wb.feedstock)
        S3 == Sheet(load_production_row, S2, wb.production)
        S4 == Sheet(load_fuelsupply_row, S3, wb.supply)
        S5 == Sheet(load_fuellimits_row, S4, wb.productionlimits)
        S6 == Sheet(load_creditlimits_row, S5, wb.creditlimits)
        S7 == Sheet(load_lcfs_row, S6, wb.lcfs)
        S8 == Step(LAMBDA T, name : [T EXCEPT !.data.lcfs = name], S7, "LCFS.benchmarks")
        S9 == Sheet(load_creditsupply_row, S8, wb.creditsupply)
        S10 == Sheet(load_blends_row, S9, wb.blends)
        S11 == Sheet(load_coproducts_row, S10, wb.coproducts)
    IN Step(LAMBDA T, status : [T EXCEPT !.data.status = status], S11, "INITIALIZED")

\* a get_production that also empties the index of registered pathways
Loader_get_production_resetting(R, year) ==
    [ProductionPathway_set_year(R, year) EXCEPT !.PP_fuels = <<>>]

\* Loader.get_production: sets the current period of the pathway registry
Loader_get_production(R, year) == ProductionPathway_set_year(R, year)

Loader_blend_list(L, year) == GetOr(L.blends, year, <<>>)

\* Loader.get_blends: (0, 0) when the requirement is not registered
Loader_get_blends(R, year, fuel, fuelpool) ==
    IF BR_registered(R, year, fuel, fuelpool)
    THEN LET req == BlendRequirement_get(R, year, fuel, fuelpool) IN <<req.minimum, req.maximum>>
    ELSE <<0, 0>>

\* Loader.verify_data: the exception it raises for the year, "" when none
Loader_verify_data(R, L, year) ==
    LET Supply(valid_paths) ==
            Fold(LAMBDA acc, path :
                    acc + Feedstock_Ub(Get(R.Feedstock, path.feedstock)) * path.yields,
                 0, valid_paths)
        Verify(fuelpool, valid_paths) ==
            IF valid_paths = <<>> THEN "KeyError"
            ELSE IF Supply(valid_paths) < FuelPool_getitem(R, fuelpool, year) THEN "KeyError"
            ELSE ""
        Check(err, fuelpool) ==
            IF err # "" THEN err
            ELSE Verify(fuelpool, ProductionPathway_get_fuel_pool(R, fuelpool, year))
    IN Fold(Check, "", L.demand)

----------------------------------------------------------------------------
(* setuplp.py: the builder.  A build B carries the solver's variables sv   *)
(* (a variable is named by its place in sv), the model's variable and      *)
(* constraint maps, the deficit-fuel list and the exception raised.        *)

NumVar(lb, ub, name, kind, fuel, feedstock, price) ==
    [name |-> name, lb |-> lb, ub |-> ub, obj |-> 0,
     kind |-> kind, fuel |-> fuel, feedstock |-> feedstock, price |-> price]

Constraint(lb, ub, name) == [name |-> name, lb |-> lb, ub |-> ub, coef |-> <<>>]

SetCoefficient(c, var, x) == [c EXCEPT !.coef = Put(@, var, x)]

NoConstraints ==
    [feedstock |-> <<>>, demand |-> <<>>, ci |-> <<>>, blend |-> <<>>,
     supply |-> <<>>, coproduct |-> <<>>]

\* a constraint name that leaves the price out
feedstock_only_name(feedstock, price) == feedstock

\* "{}_{}".format(feedstock.name, price)
feedstock_constraint_name(feedstock, price) == feedstock \o "_" \o ToString(price)

\* a credit variable that is a bank whatever the sign of the supply
add_credit_variable_as_bank(R, year, B, cname) ==
    LET supply == Abs(GetOr(Get(R.Credit, cname).supply, year, 0))
    IN IF supply = 0 THEN B
       ELSE [B EXCEPT !.sv = Append(@, NumVar(0, supply, "CreditVariable: " \o cname, "credit", cname, "", 0)),
                      !.variables.credits = Put(@, cname, Len(B.sv) + 1)]

\* the credit supply variables of _add_feedstocks
add_credit_variable(R, year, B, cname) ==
    LET credit == Get(R.Credit, cname)
        supply == GetOr(credit.supply, year, 0)
        id == Len(B.sv) + 1
    IN IF supply = 0 THEN B
       ELSE IF supply > 0
       THEN [B EXCEPT !.sv = Append(@, NumVar(0, supply, "CreditVariable: " \o cname, "credit", cname, "", 0)),
                      !.variables.credits = Put(@, cname, id)]
       ELSE [B EXCEPT !.sv = Append(@, NumVar(-supply, Inf, "CreditVariable: " \o cname, "credit", cname, "", 0)),
                      !.variables.credits = Put(@, cname, id)]

\* the body of "for price, supply in feedstock" in _add_feedstocks
add_price_variable(pathway, B, tier) ==
    LET price == tier[1]
        supply == tier[2]
        fuel == pathway.fuel
        fname == pathway.feedstock
        cname == feedstock_constraint_name(fname, price)
        fs_c == IF Has(B.constraints.feedstock, cname) THEN Get(B.constraints.feedstock, cname)
                ELSE Constraint(0, supply, "FeedstockConstraint: " \o cname)
        id == Len(B.sv) + 1
        cost == pathway.conversioncost + price - pathway.subsidy * pathway.yields
        fs == [NumVar(0, supply, fuel \o "_" \o fname \o "_" \o ToString(price), "fs", fuel, fname, price)
                 EXCEPT !.obj = cost]
        byfuel == Get(B.variables.feedstock, fuel)
    IN [B EXCEPT !.sv = Append(@, fs),
                 !.variables.feedstock = Put(@, fuel, Put(byfuel, fname, Append(Get(byfuel, fname), id))),
                 !.constraints.feedstock = Put(@, cname, SetCoefficient(fs_c, id, 1))]

\* the body of "for fuel in fuels" in _add_feedstocks
add_fuel_variables(R, feedstock, B, fuel) ==
    LET WithSlack(b) ==
            IF Has(b.variables.feedstock, fuel) THEN b
            ELSE [b EXCEPT
                    !.sv = Append(@, [NumVar(0, Inf, feedstock.name \o "_slack", "slack", fuel, feedstock.name, 0)
                                        EXCEPT !.obj = SlackPenalty]),
                    !.variables.feedstock = Append(@, <<fuel, <<<<"slack", Len(b.sv) + 1>>>>>>)]
        WithList(b) ==
            IF Has(Get(b.variables.feedstock, fuel), feedstock.name) THEN b
            ELSE [b EXCEPT !.variables.feedstock =
                    Put(@, fuel, Append(Get(@, fuel), <<feedstock.name, <<>>>>))]
    IN Fold(LAMBDA acc, tier :
               add_price_variable(ProductionPathway_get(R, feedstock.name, fuel), acc, tier),
            WithList(WithSlack(B)), feedstock.supply)

\* _add_feedstocks without "self.variables[...] = {}": the maps of the last build stay
add_feedstocks_keeping(R, L, M) ==
    LET B0 == [sv |-> <<>>, variables |-> M.variables,
               constraints |-> [M.constraints EXCEPT !.feedstock = <<>>],
               deficit_fuels |-> M.deficit_fuels, err |-> ""]
        B1 == Fold(LAMBDA acc, cname : add_credit_variable(R, M.year, acc, cname), B0, L.credits)
    IN Fold(LAMBDA acc, fname :
               Fold(LAMBDA acc2, fuel : add_fuel_variables(R, Get(R.Feedstock, fname), acc2, fuel),
                    acc, GetOr(L.productionpathways, fname, <<>>)),
            B1, L.feedstocks)

\* Model._add_feedstocks, after get_production has set the period to the year;
\* the other constraint families and the deficit list are those of the model
\* until _add_constraints replaces them
add_feedstocks(R, L, M) ==
    LET B0 == [sv |-> <<>>, variables |-> [feedstock |-> <<>>, credits |-> <<>>],
               constraints |-> [M.constraints EXCEPT !.feedstock = <<>>],
               deficit_fuels |-> M.deficit_fuels, err |-> ""]
        B1 == Fold(LAMBDA acc, cname : add_credit_variable(R, M.year, acc, cname), B0, L.credits)
    IN Fold(LAMBDA acc, fname :
               Fold(LAMBDA acc2, fuel : add_fuel_variables(R, Get(R.Feedstock, fname), acc2, fuel),
                    acc, GetOr(L.productionpathways, fname, <<>>)),
            B1, L.feedstocks)

\* an upper bound that ignores the exceed flag
demand_maximum_open(exceed, demand) == Inf

\* the upper bound of a pool's demand constraint
demand_maximum(exceed, demand) == IF exceed THEN Inf ELSE demand

\* Model._set_demand_constraint
set_demand_constraint(R, L, year, B) ==
    Fold(LAMBDA acc, pool_name :
            LET demand == FuelPool_getitem(R, pool_name, year)
                maximum == demand_maximum(Get(R.FuelPool, pool_name).exceed, demand)
            IN [acc EXCEPT !.constraints.demand =
                  Put(@, pool_name, Constraint(demand, maximum, "FuelDemandRequirement: " \o pool_name))],
         [B EXCEPT !.constraints.demand = <<>>], L.demand)

\* coef = (ci - pw.ci / pw.eer) * pw.yields * 1e-6 * pw.eer, in units of 1e-6
\* a coefficient that leaves the energy economy ratio out
ci_coefficient_without_eer(ci, pw) == (ci - pw.ci) * pw.yields

\* coef = (ci - pw.ci/pw.eer) * pw.yields*1e-6*pw.eer, in units of 1e-6
ci_coefficient(ci, pw) == (ci * pw.eer - pw.ci) * pw.yields

\* Model._set_ci_constraint
set_ci_constraint(R, L, year, B) ==
    LET B0 == [B EXCEPT !.constraints.ci = <<<<"total", Constraint(0, Inf, "CI Constraint_total")>>>>,
                        !.deficit_fuels = <<>>]
        AddCredit(acc, c_name) ==
            LET credit == Get(R.Credit, c_name)
                lim == GetOr(credit.limits, year, <<-Inf, Inf>>)
                c_cons == Constraint(lim[1], lim[2], "CI Constraint_" \o c_name)
            IN IF Has(acc.variables.credits, c_name)
               THEN LET var == Get(acc.variables.credits, c_name)
                        coef == IF acc.sv[var].lb > 0 THEN -1 ELSE 1
                        withc == [acc EXCEPT !.constraints.ci = Put(@, c_name, SetCoefficient(c_cons, var, coef))]
                    IN [withc EXCEPT !.constraints.ci =
                          Put(@, "total", SetCoefficient(Get(@, "total"), var, coef))]
               ELSE [acc EXCEPT !.constraints.ci = Put(@, c_name, c_cons)]
        B1 == Fold(AddCredit, B0, L.credits)
        AddVar(ci, pw, acc, fstck_var) ==
            LET coef == ci_coefficient(ci, pw)
                d == IF coef < 0 THEN Append(acc.deficit_fuels, fstck_var) ELSE acc.deficit_fuels
                c1 == Put(acc.constraints.ci, pw.credit,
                          SetCoefficient(Get(acc.constraints.ci, pw.credit), fstck_var, coef))
                c2 == Put(c1, "total", SetCoefficient(Get(c1, "total"), fstck_var, coef))
            IN [acc EXCEPT !.deficit_fuels = d, !.constraints.ci = c2]
        AddPathway(ci, acc, pw) ==
            IF acc.err # "" THEN acc
            ELSE IF pw.eer = 0 THEN [acc EXCEPT !.err = "ZeroDivisionError"]
            ELSE Fold(LAMBDA a, v : AddVar(ci, pw, a, v), acc,
                      Get(Get(acc.variables.feedstock, pw.fuel), pw.feedstock))
        AddBenchmark(acc, bname) ==
            LET benchmark == Get(R.LCFS, bname)
                ci == LCFS_getitem(benchmark, year)
            IN IF ci = NoneNumber THEN acc
               ELSE Fold(LAMBDA a, pw : AddPathway(ci, a, pw), acc,
                         ProductionPathway_get_benchmark(R, bname, year))
    IN Fold(AddBenchmark, B1, Keys(R.LCFS))

\* Model._set_blending_constraints
set_blending_constraints(L, year, B) ==
    Fold(LAMBDA acc, req :
            [acc EXCEPT !.constraints.blend =
               Put(@, req.name, <<Constraint(-Inf, 0, "BlendMinimum: " \o req.name),
                                  Constraint(-Inf, 0, "BlendMaximum: " \o req.name)>>)],
         [B EXCEPT !.constraints.blend = <<>>], Loader_blend_list(L, year))

\* (1 - p) x v and (1 + p) x v for a whole-percent p
Less(p, v) == IntDiv((100 - p) * v, 100)
More(p, v) == IntDiv((100 + p) * v, 100)

\* the minimum and maximum _set_supply_constraint computes for one fuel:
\* untouched when the fuel has no bound at all, zerodiv when the division by
\* (1 - default limit) is a division by zero
effective_bounds(fuel, year, default_production_limit, prior_solution) ==
    LET has_min == Has(fuel.supply, year)
        has_max == Has(fuel.limits, year)
        min_value == IF has_min THEN Get(fuel.supply, year)[1] ELSE 0
        max_value == IF has_max THEN Get(fuel.limits, year)[1] ELSE Inf
        pct_change == IF has_max THEN Get(fuel.limits, year)[2] ELSE default_production_limit
        in_prior == Has(prior_solution, fuel.name)
        prior == Get(prior_solution, fuel.name)
        old_value == IntDiv(prior[1] * 100, 100 - default_production_limit)
        prior_min == IF pct_change # 0 THEN Less(pct_change, old_value) ELSE prior[1]
        prior_max == IF pct_change # 0 THEN Max2(More(pct_change, old_value), FloorVolume) ELSE prior[2]
        zerodiv == in_prior /\ pct_change # 0 /\ default_production_limit = 100
    IN [untouched |-> min_value = 0 /\ max_value = Inf /\ ~in_prior,
        zerodiv |-> zerodiv,
        minimum |-> IF in_prior /\ ~zerodiv THEN Max2(min_value, prior_min) ELSE min_value,
        maximum |-> IF in_prior /\ ~zerodiv THEN Min2(max_value, prior_max) ELSE max_value]

\* the comparison with its sides exchanged
bounds_conflict_swapped(minimum, maximum) == maximum > minimum

\* if minimum > maximum: raise
bounds_conflict(minimum, maximum) == minimum > maximum

\* what _set_supply_constraint does for one fuel:
\* [skip, err, minimum, maximum], skip when the fuel gets no constraint
supply_bounds(fuel, year, default_production_limit, prior_solution) ==
    With(effective_bounds(fuel, year, default_production_limit, prior_solution),
         LAMBDA b :
            LET none == [skip |-> TRUE, err |-> "", minimum |-> 0, maximum |-> 0]
            IN IF b.untouched THEN none
               ELSE IF b.zerodiv THEN [none EXCEPT !.err = "ZeroDivisionError"]
               ELSE IF bounds_conflict(b.minimum, b.maximum) THEN [none EXCEPT !.err = "Exception"]
               ELSE IF b.minimum = 0 /\ b.maximum = 0 THEN none
               ELSE [skip |-> FALSE, err |-> "", minimum |-> b.minimum, maximum |-> b.maximum])

\* Model._set_supply_constraint: stops at the first fuel that raises
set_supply_constraint(R, L, M, B) ==
    Fold(LAMBDA acc, fname :
            IF acc.err # "" THEN acc
            ELSE With(supply_bounds(Get(R.Fuel, fname), M.year,
                                    M.default_production_limit, M.prior_solution),
                      LAMBDA b :
                         IF b.err # "" THEN [acc EXCEPT !.err = b.err]
                         ELSE IF b.skip THEN acc
                         ELSE [acc EXCEPT !.constraints.supply =
                                 Put(@, fname, Constraint(b.minimum, b.maximum,
                                                          "FuelSupplyGrowthConstraint: " \o fname))]),
         [B EXCEPT !.constraints.supply = <<>>], L.fuels)

\* Model._set_coproduct_constraints
set_coproduct_constraints(R, B) ==
    [B EXCEPT !.constraints.coproduct =
        [i \in 1..Len(R.Coproducts) |->
            <<R.Coproducts[i][1],
              [j \in 1..Len(R.Coproducts[i][2]) |->
                  <<R.Coproducts[i][2][j][1],
                    Constraint(0, 0, "Coproduct Constraint_" \o R.Coproducts[i][1]
                                      \o "_" \o R.Coproducts[i][2][j][1])>>]>>]]

\* Model._add_blend_coefficients
\* blend coefficients that treat the targeted pathway like any other of the pool
add_blend_coefficients_untargeted(B, fs_price_var, blend_list, fuelpool, pathway) ==
    Fold(LAMBDA acc, blend :
            IF blend.fuelpool # fuelpool THEN acc
            ELSE [acc EXCEPT !.constraints.blend =
                    Put(@, blend.name,
                        <<SetCoefficient(Get(@, blend.name)[1], fs_price_var,
                                         pathway.yields * blend.minimum),
                          SetCoefficient(Get(@, blend.name)[2], fs_price_var,
                                         -pathway.yields * blend.maximum)>>)],
         B, blend_list)

add_blend_coefficients(B, fs_price_var, blend_list, fuelpool, pathway) ==
    Fold(LAMBDA acc, blend :
            IF blend.fuelpool # fuelpool THEN acc
            ELSE LET target == blend.requirement = pathway.blend
                     min_coef == IF target THEN blend.minimum - 100 ELSE blend.minimum
                     max_coef == IF target THEN 100 - blend.maximum ELSE -blend.maximum
                     pair == Get(acc.constraints.blend, blend.name)
                 IN [acc EXCEPT !.constraints.blend =
                       Put(@, blend.name,
                           <<SetCoefficient(pair[1], fs_price_var, pathway.yields * min_coef),
                             SetCoefficient(pair[2], fs_price_var, pathway.yields * max_coef)>>)],
         B, blend_list)

\* the coproduct coefficients of one variable in _add_price_coefficients
add_coproduct_coefficients(R, B, fs_price_var, pathway) ==
    LET basefuels == Coproducts_which_basefuel(R, pathway.fuel)
        own == Get(B.constraints.coproduct, pathway.fuel)
    IN IF basefuels = <<>>
       THEN [B EXCEPT !.constraints.coproduct =
               Put(@, pathway.fuel,
                   [j \in 1..Len(own) |->
                       <<own[j][1],
                         SetCoefficient(own[j][2], fs_price_var,
                             pathway.yields * Coproducts_get_multiplier(R, own[j][1], pathway.fuel))>>])]
       ELSE Fold(LAMBDA acc, base :
                    LET byb == Get(acc.constraints.coproduct, base)
                    IN [acc EXCEPT !.constraints.coproduct =
                          Put(@, base, Put(byb, pathway.fuel,
                              SetCoefficient(Get(byb, pathway.fuel), fs_price_var, -pathway.yields)))],
                 B, basefuels)

\* Model._add_price_coefficients
add_price_coefficients(R, L, year, B, fuelpool, pathway, prices) ==
    LET fuel == pathway.fuel
        blend_list == Loader_blend_list(L, year)
        in_blend_pool == \E i \in 1..Len(blend_list) : blend_list[i].fuelpool = fuelpool
        has_fuel_constraint == Has(B.constraints.supply, fuel)
        coproducts == InList(Coproducts_get_all_fuels(R), fuel)
        slack == Get(Get(B.variables.feedstock, fuel), "slack")
        InSupply(b, var, x) ==
            IF has_fuel_constraint
            THEN [b EXCEPT !.constraints.supply = Put(@, fuel, SetCoefficient(Get(@, fuel), var, x))]
            ELSE b
        InDemand(b, v) ==
            [b EXCEPT !.constraints.demand =
                Put(@, fuelpool, SetCoefficient(Get(@, fuelpool), v, pathway.yields))]
        InBlends(b, v) ==
            IF in_blend_pool THEN add_blend_coefficients(b, v, blend_list, fuelpool, pathway) ELSE b
        InCoproducts(b, v) ==
            IF coproducts THEN add_coproduct_coefficients(R, b, v, pathway) ELSE b
    IN Fold(LAMBDA acc, v :
               InCoproducts(InBlends(InSupply(InDemand(acc, v), v, pathway.yields), v), v),
            InSupply(B, slack, -pathway.yields), prices)

\* the coefficient loop that ends Model._add_constraints
add_coefficients(R, L, year, B) ==
    Fold(LAMBDA acc, kv :
            LET fuel == kv[1]
                fuelpool == Get(R.Fuel, fuel).fuelpool
            IN Fold(LAMBDA acc2, fp :
                       IF fp[1] = "slack" THEN acc2
                       ELSE add_price_coefficients(R, L, year, acc2, fuelpool,
                                                   ProductionPathway_get(R, fp[1], fuel), fp[2]),
                    acc, kv[2]),
         B, B.variables.feedstock)

\* the next step of a build, unless an exception has ended it
Then(B, Op(_)) == With(B, LAMBDA b : IF b.err # "" THEN b ELSE Op(b))

\* Model._add_constraints; a family not reached before an exception keeps the
\* constraints of the previous build
add_constraints(R, L, M, B) ==
    LET B1 == set_demand_constraint(R, L, M.year, B)
        B2 == set_ci_constraint(R, L, M.year, B1)
        B3 == Then(B2, LAMBDA b : set_blending_constraints(L, M.year, b))
        B4 == Then(B3, LAMBDA b : set_supply_constraint(R, L, M, b))
        B5 == Then(B4, LAMBDA b : set_coproduct_constraints(R, b))
    IN Then(B5, LAMBDA b : add_coefficients(R, L, M.year, b))

----------------------------------------------------------------------------
(* The solver.  Solve() is an external call: it answers a status and, when *)
(* the status is OPTIMAL, a value for every variable that satisfies the    *)
(* bounds and the constraints.  The values are drawn from the ends of each *)
(* variable's range.                                                       *)

OPTIMAL == "OPTIMAL"
INFEASIBLE == "INFEASIBLE"
ABNORMAL == "ABNORMAL"
NOT_SOLVED == "NOT_SOLVED"
Statuses == {OPTIMAL, INFEASIBLE, ABNORMAL, NOT_SOLVED}

\* every constraint of the model's families
AllConstraints(C) ==
    Values(C.feedstock) \o Values(C.demand) \o Values(C.ci) \o Values(C.supply)
    \o Fold(LAMBDA acc, pair : acc \o pair, <<>>, Values(C.blend))
    \o Fold(LAMBDA acc, byb : acc \o Values(byb), <<>>, Values(C.coproduct))

Activity(c, x) == Fold(LAMBDA acc, kv : acc + kv[2] * x[kv[1]], 0, c.coef)

Satisfied(c, x) ==
    LET a == Activity(c, x)
    IN (c.lb = -Inf \/ c.lb <= a) /\ (c.ub = Inf \/ a <= c.ub)

InConstraint(C, v) ==
    LET cs == AllConstraints(C) IN \E i \in 1..Len(cs) : Has(cs[i].coef, v)

\* the values a solution may give a variable: an end of its range; a slack
\* variable, unbounded above, takes 0 or what a variable of its fuel takes; a
\* variable with a cost that is in no constraint stays at its lower bound
Candidates(sv, C, v) ==
    LET var == sv[v]
    IN IF var.obj > 0 /\ ~InConstraint(C, v) THEN {var.lb}
       ELSE IF var.ub # Inf THEN {var.lb, var.ub}
       ELSE {var.lb} \cup {sv[j].ub : j \in {k \in 1..Len(sv) : sv[k].kind = "fs" /\ sv[k].fuel = var.fuel}}

\* the assignments of candidate values that satisfy every constraint; they are
\* built variable by variable, and a constraint is tested as soon as the last
\* of its variables has a value
Solutions(sv, C) ==
    LET cs == AllConstraints(C)
        Last(c) == Fold(LAMBDA m, kv : Max2(m, kv[1]), 0, c.coef)
        last == [i \in 1..Len(cs) |-> Last(cs[i])]
        Extend(acc, v) ==
            LET K == Candidates(sv, C, v)
                closed == {i \in 1..Len(cs) : last[i] = v}
            IN {y \in {Append(x, c) : x \in acc, c \in K} : \A i \in closed : Satisfied(cs[i], y)}
        all == Fold(Extend, {<<>>}, [v \in 1..Len(sv) |-> v])
    IN {x \in all : \A i \in 1..Len(cs) : last[i] = 0 => Satisfied(cs[i], x)}

----------------------------------------------------------------------------
(* setuplp.py: the Model.  A machine state X holds every variable of the   *)
(* program; the operators below answer the state a call leaves behind.     *)

\* self.results = None: nothing saved yet; save_results treats None and {} alike
NoResults == [Category |-> <<>>, Units |-> <<>>, years |-> <<>>]

NewModel ==
    [year |-> NoYear, variables |-> [feedstock |-> <<>>, credits |-> <<>>],
     constraints |-> NoConstraints, status |-> None, deficit_fuels |-> <<>>,
     tolerance |-> InitialTolerance, default_production_limit |-> DefaultProductionLimit,
     prior_solution |-> <<>>, results |-> NoResults]

NewSolver == [sv |-> <<>>, values |-> <<>>, solves |-> 0]

\* Model.get_year
get_year(M) == IF M.status = None THEN NoYear ELSE M.year

\* the roll-forward bounds are cleared unless optimize continues a roll-forward
clears_prior_solution(increment_time) == ~increment_time

\* a retry that forgets the flag: self.optimize(year)
retry_flag_cold(increment_time) == FALSE

\* the flag the ABNORMAL retry passes on: self.optimize(year, increment_time)
retry_flag(increment_time) == increment_time

\* a retry without a ceiling
tolerance_exceeded_never(tolerance) == FALSE

\* if self._tolerance > 10: raise
tolerance_exceeded(tolerance) == tolerance > ToleranceCeiling

\* Model._set_tolerance
set_tolerance(tolerance) == tolerance * 10

Fail(X, e) == [X EXCEPT !.pc = "error", !.err = e]

\* an optimize that starts a cold year with the initial tolerance again
optimize_fresh_tolerance(X, year, increment_time) ==
    LET M1 == [X.model EXCEPT !.year = year,
                              !.tolerance = IF increment_time THEN @ ELSE InitialTolerance,
                              !.prior_solution = IF clears_prior_solution(increment_time) THEN <<>> ELSE @]
        X1 == [X EXCEPT !.model = M1, !.call.increment_time = increment_time]
        R2 == Loader_get_production(X.registry, year)
        Built(b) == [X1 EXCEPT !.registry = R2,
                               !.solver = [sv |-> b.sv, values |-> <<>>, solves |-> X.solver.solves],
                               !.model.variables = b.variables,
                               !.model.constraints = b.constraints,
                               !.model.deficit_fuels = b.deficit_fuels]
        Solve(b) == IF b.err # "" THEN Fail(Built(b), b.err)
                    ELSE [Built(b) EXCEPT !.pc = "solving", !.solver.solves = @ + 1]
    IN IF Loader_verify_data(X.registry, X.data, year) # ""
       THEN Fail(X1, Loader_verify_data(X.registry, X.data, year))
       ELSE IF year = NoYear THEN Fail(X1, "Exception")
       ELSE With(add_constraints(R2, X.data, M1, add_feedstocks(R2, X.data, M1)), Solve)

\* Model.optimize up to the call of solver.Solve()
optimize(X, year, increment_time) ==
    LET M1 == [X.model EXCEPT !.year = year,
                              !.prior_solution = IF clears_prior_solution(increment_time) THEN <<>> ELSE @]
        X1 == [X EXCEPT !.model = M1, !.call.increment_time = increment_time]
        R2 == Loader_get_production(X.registry, year)
        Built(b) == [X1 EXCEPT !.registry = R2,
                               !.solver = [sv |-> b.sv, values |-> <<>>, solves |-> X.solver.solves],
                               !.model.variables = b.variables,
                               !.model.constraints = b.constraints,
                               !.model.deficit_fuels = b.deficit_fuels]
        Solve(b) == IF b.err # "" THEN Fail(Built(b), b.err)
                    ELSE [Built(b) EXCEPT !.pc = "solving", !.solver.solves = @ + 1]
    IN IF Loader_verify_data(X.registry, X.data, year) # ""
       THEN Fail(X1, Loader_verify_data(X.registry, X.data, year))
       ELSE IF year = NoYear THEN Fail(X1, "Exception")
       ELSE With(add_constraints(R2, X.data, M1, add_feedstocks(R2, X.data, M1)), Solve)

\* Model.calculate_fuel_supply, for a model whose status is OPTIMAL
calculate_fuel_supply(R, M, values) ==
    Fold(LAMBDA supply, kv :
            LET fuel == kv[1]
                Add(acc, fp) ==
                    IF fp[1] = "slack" THEN acc
                    ELSE LET yields == ProductionPathway_get(R, fp[1], fuel).yields
                             quantity == acc.quantity
                                         + Fold(LAMBDA t, v : t + values[v], 0, fp[2]) * yields
                         IN [quantity |-> quantity,
                             supply |-> IF quantity > 0 THEN Put(acc.supply, fuel, quantity) ELSE acc.supply]
            IN Fold(Add, [quantity |-> 0, supply |-> supply], kv[2]).supply,
         <<>>, M.variables.feedstock)

\* Model._calculate_incremental_limits
calculate_incremental_limits(resolved_supply, default_production_limit) ==
    [i \in 1..Len(resolved_supply) |->
        LET value == resolved_supply[i][2]
            minimum == Less(default_production_limit, value)
            maximum == More(default_production_limit, value)
        IN <<resolved_supply[i][1], <<IF minimum < Threshold THEN 0 ELSE minimum, maximum>>>>]

\* an increment_time that moves to the next year before it finds the model unsolved
increment_time_year_first(X) ==
    IF X.model.status # OPTIMAL THEN Fail([X EXCEPT !.model.year = @ + 1], "Exception")
    ELSE LET R1 == Loader_get_production(X.registry, X.model.year)
             limits == calculate_incremental_limits(
                           calculate_fuel_supply(R1, X.model, X.solver.values),
                           X.model.default_production_limit)
         IN optimize([X EXCEPT !.registry = R1, !.model.prior_solution = limits],
                     X.model.year + 1, TRUE)

\* Model.increment_time up to the call of solver.Solve()
increment_time(X) ==
    IF X.model.status # OPTIMAL THEN Fail(X, "Exception")
    ELSE LET R1 == Loader_get_production(X.registry, X.model.year)
             limits == calculate_incremental_limits(
                           calculate_fuel_supply(R1, X.model, X.solver.values),
                           X.model.default_production_limit)
         IN optimize([X EXCEPT !.registry = R1, !.model.prior_solution = limits],
                     X.model.year + 1, TRUE)

\* round(carbon / energy, 2), in hundredths: the nearest one, a tie to the even one
Round2(carbon, energy) ==
    LET q == (100 * carbon) \div energy
        r == (100 * carbon) % energy
    IN IF 2 * r > energy \/ (2 * r = energy /\ q % 2 = 1) THEN q + 1 ELSE q

\* Model.save_results for a solved model.  dual is the DualValue() the solver
\* reports for a constraint; same tells whether the NaN of two empty cells is
\* one object, and so one key of a dict.  Quantities are in the units of
\* energy, marginal costs in cents (dual x 115.83), credit quantities in the
\* units of the coefficients, average intensities in hundredths.
save_results(X, dual, same) ==
    LET M == X.model
        values == X.solver.values
        R == Loader_get_production(X.registry, M.year)
        Store(d, k, v) == IF k = NaN /\ ~same THEN Append(d, <<k, v>>) ELSE Put(d, k, v)
        Prior(d, k, dflt) == IF k = NaN /\ ~same THEN dflt ELSE GetOr(d, k, dflt)
        Sum(a, b) == IF a = NaNNumber \/ b = NaNNumber THEN NaNNumber ELSE a + b
        Row(T, fuel, fp) ==
            LET feedstock == fp[1]
                prices == fp[2]
                pw == ProductionPathway_get(R, feedstock, fuel)
                given == pw.results.raggregator # None /\ pw.results.raggregator # ""
                aggregator == IF given THEN pw.results.raggregator ELSE fuel
                runits == IF given THEN pw.results.runits ELSE "MJ"
                multiplier == IF given THEN pw.results.rmultiplier ELSE 1
                energy == Fold(LAMBDA t, v : t + values[v] * pw.yields, 0, prices)
                carbon == Fold(LAMBDA t, v : t + pw.ci * values[v] * pw.yields, 0, prices)
                quantity == IF prices = <<>> THEN 0
                            ELSE IF multiplier = NaNNumber THEN NaNNumber ELSE energy * multiplier
                e == Prior(T.emissions, aggregator, [carbon |-> 0, energy |-> 0])
            IN IF feedstock = "slack"
               THEN IF values[prices] > 0
                    THEN [T EXCEPT !.category = Put(@, fuel, "RelaxedConstraint"),
                                   !.units = Put(@, fuel, X.solver.sv[prices].name),
                                   !.results_dict = Put(@, fuel, values[prices])]
                    ELSE T
               ELSE [T EXCEPT
                       !.results_dict = Store(@, aggregator, Sum(Prior(@, aggregator, 0), quantity)),
                       !.emissions = Store(@, aggregator, [carbon |-> e.carbon + carbon,
                                                           energy |-> e.energy + energy]),
                       !.category = Store(@, aggregator, "Fuel"),
                       !.units = Store(@, aggregator, runits)]
        Cost(T, kv) ==
            [T EXCEPT !.results_dict = Put(@, kv[1] \o " Cost", dual * 11583),
                      !.category = Put(@, kv[1] \o " Cost", "Marginal Cost"),
                      !.units = Put(@, kv[1] \o " Cost", "$/GGE")]
        Credits(T, kv) ==
            [T EXCEPT !.results_dict = Put(Put(@, kv[1], dual),
                                           kv[1] \o " credit quantity", Activity(kv[2], values)),
                      !.category = Put(Put(@, kv[1], IF kv[1] = "total" THEN "Credit Price"
                                                     ELSE "Credit Differential"),
                                       kv[1] \o " credit quantity", "Credits"),
                      !.units = Put(Put(@, kv[1], "$/ton"), kv[1] \o " credit quantity", "tons")]
        AvgCI(T, kv) ==
            IF T.err # "" THEN T
            ELSE IF kv[1] = NaN THEN [T EXCEPT !.err = "Exception"]
            ELSE IF kv[2].energy = 0 THEN T
            ELSE [T EXCEPT !.results_dict = Put(@, kv[1] \o " Avg CI", Round2(kv[2].carbon, kv[2].energy)),
                           !.category = Put(@, kv[1] \o " Avg CI", "Carbon Intensity"),
                           !.units = Put(@, kv[1] \o " Avg CI", "gCO2e/MJ")]
        T0 == [category |-> M.results.Category, units |-> M.results.Units,
               results_dict |-> <<>>, emissions |-> <<>>, err |-> ""]
        T1 == Fold(LAMBDA T, kv : Fold(LAMBDA T2, fp : Row(T2, kv[1], fp), T, kv[2]),
                   T0, M.variables.feedstock)
        T2 == Fold(Cost, T1, M.constraints.demand)
        T3 == Fold(Credits, T2, M.constraints.ci)
    IN With(Fold(AvgCI, T3, T3.emissions), LAMBDA T :
          With([X EXCEPT !.registry = R,
                         !.model.results = [Category |-> T.category, Units |-> T.units,
                                            years |-> Put(M.results.years, M.year, T.results_dict)]],
               LAMBDA X1 : IF T.err # "" THEN Fail(X1, T.err) ELSE [X1 EXCEPT !.pc = "saved"]))

\* Model.set_default_production; the limit is the text of the config option:
\* absent, a number (here a whole percent) or text that float() rejects
set_default_production(M, limit) ==
    IF ~limit.given THEN M
    ELSE IF ~limit.valid THEN [M EXCEPT !.default_production_limit = 0]
    ELSE [M EXCEPT !.default_production_limit = limit.pct]

----------------------------------------------------------------------------
(* runopt.py: the year loop of run, for one scenario *)

NoRun == [years |-> <<>>, year |-> NoYear, disableautoincrement |-> FALSE,
          solved |-> <<>>, written |-> <<>>]

\* a loop that goes on after an INFEASIBLE year
run_never_returns(status) == FALSE

\* if model.status == model.solver.INFEASIBLE: ... return
run_returns(status) == status = INFEASIBLE

\* model.save_results(verbose) passes an argument that save_results(self) does not take
save_results_call(X) == Fail(X, "TypeError")

RECURSIVE run_years(_)

\* the rest of a loop iteration, after the year's solve (if any) has returned
run_after_solve(X) ==
    IF X.model.status = OPTIMAL THEN save_results_call(X)
    ELSE IF run_returns(X.model.status) THEN [X EXCEPT !.pc = "done"]
    ELSE run_years([X EXCEPT !.runstate.written = Append(@, X.runstate.year)])

\* the loop "for year in years" from the top of an iteration to the next
\* call of solver.Solve(), to the exception that ends it, or to its end
run_years(X) ==
    IF X.runstate.years = <<>> THEN [X EXCEPT !.pc = "done"]
    ELSE LET year == Head(X.runstate.years)
             X1 == [X EXCEPT !.runstate.years = Tail(@), !.runstate.year = year]
             X2 == [X1 EXCEPT !.runstate.solved = Append(@, year)]
         IN IF year - 1 = get_year(X.model)
            THEN IF ~X.runstate.disableautoincrement THEN increment_time(X2)
                 ELSE run_after_solve(X1)
            ELSE optimize(X2, year, FALSE)

\* Model.optimize from the return of solver.Solve()
after_solve(X, status, values) ==
    LET X1 == [X EXCEPT !.model.status = status, !.solver.values = values]
    IN IF status = ABNORMAL
       THEN IF tolerance_exceeded(X.model.tolerance) THEN Fail(X1, "Exception")
            ELSE optimize([X1 EXCEPT !.model.tolerance = set_tolerance(@)],
                          X.model.year, retry_flag(X.call.increment_time))
       ELSE IF X.call.caller = "run" THEN run_after_solve([X1 EXCEPT !.pc = "running"])
       ELSE [X1 EXCEPT !.pc = "idle"]

----------------------------------------------------------------------------
(* The inputs: scenario workbooks, config options and years *)

Years == 2020..(2020 + MaxYears)

PRow(year, fuel, fuelpool, feedstock, cost, yields, ci, credit, benchmark) ==
    [year |-> year, fuel |-> fuel, fuelpool |-> fuelpool, feedstock |-> feedstock,
     cost |-> cost, yields |-> yields, ci |-> ci, eer |-> 1, subs |-> 0, credit |-> credit,
     benchmark |-> benchmark, blend |-> NaN, runits |-> NaN, raggregator |-> NaN,
     rmultiplier |-> NaNNumber]

\* two diesel-pool fuels made from oil, one gasoline-pool fuel made from corn,
\* and a feedstock that no pathway uses
BaseWorkbook ==
    [demand |-> <<[year |-> 2020, pool |-> "dsl", energy |-> 50000, exceed |-> FALSE],
                  [year |-> 2020, pool |-> "gas", energy |-> 20000, exceed |-> FALSE]>>,
     feedstock |-> <<[feedstock |-> "oil", tiers |-> <<<<10, 40>>, <<20, 10>>>>],
                     [feedstock |-> "corn", tiers |-> <<<<5, 20>>>>],
                     [feedstock |-> "waste", tiers |-> <<<<1, 5>>>>]>>,
     production |-> <<PRow(2020, "rd", "dsl", "oil", 100, 1000, 30, "Default", "diesel"),
                      PRow(2020, "ajf", "dsl", "oil", 150, 1000, 40, "Default", "diesel"),
                      PRow(2020, "eth", "gas", "corn", 50, 1000, 60, "Default", "gasoline")>>,
     supply |-> <<>>,
     productionlimits |-> <<>>,
     creditlimits |-> <<>>,
     lcfs |-> <<[year |-> 2020, benchmark |-> "diesel", standard |-> 90],
                [year |-> 2020, benchmark |-> "gasoline", standard |-> 90]>>,
     creditsupply |-> <<>>,
     blends |-> <<>>,
     coproducts |-> <<>>]

\* what a scenario adds to the pathways, the co-products and the credits
NoStructure ==
    [production |-> <<>>, coproducts |-> <<>>, creditlimits |-> <<>>, creditsupply |-> <<>>,
     blends |-> <<>>]

StructureVariants ==
    { NoStructure,
      [NoStructure EXCEPT !.blends = <<[year |-> 2020, requirement |-> "ethanol",
                                        fuelpool |-> "gas", min |-> 0, max |-> 100]>>],
      \* a blend requirement with the fuel it targets, a fuel that generates
      \* deficits: its carbon intensity is above twice the standard
      [NoStructure EXCEPT
          !.production = <<[PRow(2020, "e85", "gas", "corn", 60, 1000, 200, "Default", "gasoline")
                              EXCEPT !.blend = "ethanol", !.eer = 2]>>,
          !.blends = <<[year |-> 2020, requirement |-> "ethanol",
                        fuelpool |-> "gas", min |-> 10, max |-> 100]>>],
      \* a pathway registered for two years, the later one subsidised by two rows
      [NoStructure EXCEPT
          !.production =
             <<[PRow(2021, "rd", "dsl", "oil", 90, 1000, 25, "Default", "diesel") EXCEPT !.subs = 2],
               [PRow(2021, "rd", "dsl", "oil", 90, 1000, 25, "Default", "diesel") EXCEPT !.subs = 3]>>],
      \* a credit obligation: a negative supply
      [NoStructure EXCEPT
          !.creditsupply = <<[year |-> 2020, credit |-> "Default", quantity |-> -10]>>],
      [production |-> <<>>, creditlimits |-> <<>>, creditsupply |-> <<>>, blends |-> <<>>,
       coproducts |-> <<[fuel |-> "ajf", basefuel |-> "rd", multiplier |-> 4]>>],
      [production |-> <<>>, creditlimits |-> <<>>, creditsupply |-> <<>>, blends |-> <<>>,
       coproducts |-> <<[fuel |-> "ajf", basefuel |-> "rd", multiplier |-> 4],
                        [fuel |-> "eth", basefuel |-> "ajf", multiplier |-> 1]>>],
      [production |-> <<PRow(2020, "rd", "dsl", "tallow", 100, 1000, 30, "Default", "diesel")>>,
       coproducts |-> <<>>, creditlimits |-> <<>>, creditsupply |-> <<>>, blends |-> <<>>],
      [production |-> <<PRow(2020, "eth", "gas", "oil", 120, 1000, 50, "Default", "ethanol")>>,
       coproducts |-> <<>>, creditlimits |-> <<>>, creditsupply |-> <<>>, blends |-> <<>>],
      [production |-> <<>>, coproducts |-> <<>>, creditsupply |-> <<>>, blends |-> <<>>,
       creditlimits |-> <<[year |-> 2020, credit |-> "CFP", min |-> 0, max |-> 100]>>],
      [production |-> <<>>, coproducts |-> <<>>, creditlimits |-> <<>>, blends |-> <<>>,
       creditsupply |-> <<[year |-> 2020, credit |-> "CFP", quantity |-> 10]>>],
      [production |-> <<>>, coproducts |-> <<>>, blends |-> <<>>,
       creditlimits |-> <<[year |-> 2020, credit |-> "Default", min |-> 0, max |-> Inf]>>,
       creditsupply |-> <<[year |-> 2020, credit |-> "Default", quantity |-> 10]>>] }

\* what a scenario says about demand ceilings and production bounds
NoBounds == [exceed |-> FALSE, supply |-> <<>>, productionlimits |-> <<>>]

BoundVariants ==
    { NoBounds,
      [exceed |-> TRUE, supply |-> <<>>, productionlimits |-> <<>>],
      [exceed |-> FALSE,
       supply |-> <<[year |-> 2020, fuel |-> "rd", energy |-> 60000, policy |-> "RFS"]>>,
       productionlimits |-> <<[year |-> 2020, fuel |-> "rd", max |-> 30000, pct |-> 0]>>],
      [exceed |-> FALSE, productionlimits |-> <<>>,
       supply |-> <<[year |-> 2021, fuel |-> "rd", energy |-> 60000, policy |-> "RFS"]>>],
      [exceed |-> FALSE, supply |-> <<>>,
       productionlimits |-> <<[year |-> 2021, fuel |-> "rd", max |-> 45000, pct |-> 20]>>],
      \* a fuel whose production is capped at nothing
      [exceed |-> FALSE, supply |-> <<>>,
       productionlimits |-> <<[year |-> 2020, fuel |-> "ajf", max |-> 0, pct |-> 0]>>] }

Workbook(a, b) ==
    [BaseWorkbook EXCEPT
        !.demand = [i \in 1..Len(@) |-> [@[i] EXCEPT !.exceed = b.exceed]],
        !.production = @ \o a.production,
        !.coproducts = a.coproducts,
        !.creditlimits = a.creditlimits,
        !.creditsupply = a.creditsupply,
        !.blends = a.blends,
        !.supply = b.supply,
        !.productionlimits = b.productionlimits]

\* a scenario varies the structure or the bounds of the base workbook
Workbooks ==
    {Workbook(a, NoBounds) : a \in StructureVariants}
    \cup {Workbook(NoStructure, b) : b \in BoundVariants}
    \* a benchmark without a standard for 2020, between an earlier and a later one
    \cup {[BaseWorkbook EXCEPT
              !.lcfs = <<[year |-> 2018, benchmark |-> "diesel", standard |-> 95],
                         [year |-> 2021, benchmark |-> "diesel", standard |-> 80],
                         [year |-> 2020, benchmark |-> "gasoline", standard |-> 90]>>]}
    \* results names: two fuels shown under their raw names, in other units
    \* than MJ; their production limits are below the demand of the pool
    \cup {[BaseWorkbook EXCEPT
              !.production =
                 <<[PRow(2020, "rd", "dsl", "oil", 100, 1000, 30, "Default", "diesel")
                      EXCEPT !.raggregator = "rd", !.rmultiplier = 2, !.runits = "gal"],
                   [PRow(2020, "ajf", "dsl", "oil", 150, 1000, 40, "Default", "diesel")
                      EXCEPT !.raggregator = "ajf", !.rmultiplier = 2, !.runits = "gal"],
                   [PRow(2020, "eth", "gas", "corn", 50, 1000, 60, "Default", "gasoline")
                      EXCEPT !.raggregator = "Ethanol", !.rmultiplier = 1, !.runits = "MJ"]>>,
              !.productionlimits = <<[year |-> 2020, fuel |-> "rd", max |-> 30000, pct |-> 0],
                                     [year |-> 2020, fuel |-> "ajf", max |-> 10000, pct |-> 0]>>]}

\* the dual value the solver reports for a constraint
Duals == {0, 100}

\* the productionlimits option of config.ini
ProductionChanges ==
    { [given |-> FALSE, valid |-> FALSE, pct |-> 0],
      [given |-> TRUE, valid |-> TRUE, pct |-> 80] }

\* what Loader.get_blends is asked about
BlendNames == {"ethanol", "biodiesel"}
PoolNames == {"gas", "dsl"}

\* the year lists of config.ini: increasing, of one or two years
YearLists ==
    {<<y>> : y \in Years} \cup {<<yz[1], yz[2]>> : yz \in {w \in Years \X Years : w[1] < w[2]}}

----------------------------------------------------------------------------
(* The program *)

Machine ==
    [registry |-> registry, data |-> data, model |-> model, solver |-> solver,
     pc |-> pc, call |-> call, runstate |-> runstate, err |-> raised]

Becomes(next) ==
    \E X \in {next} :
    /\ registry' = X.registry
    /\ data' = X.data
    /\ model' = X.model
    /\ solver' = X.solver
    /\ pc' = X.pc
    /\ call' = X.call
    /\ runstate' = X.runstate
    /\ raised' = X.err

Init ==
    /\ registry = EmptyRegistry
    /\ data = NewLoader
    /\ model = NewModel
    /\ solver = NewSolver
    /\ pc = "start"
    /\ call = [caller |-> "api", increment_time |-> FALSE]
    /\ runstate = NoRun
    /\ calls = <<>>
    /\ raised = ""
    /\ workbook = BaseWorkbook
    /\ returned = <<>>

\* data.load() of a workbook, as a direct call
loaded(X, wb) ==
    With(Loader_load([reg |-> X.registry, data |-> X.data, err |-> ""], wb),
         LAMBDA S :
            IF S.err # "" THEN Fail([X EXCEPT !.registry = S.reg, !.data = S.data], S.err)
            ELSE [X EXCEPT !.registry = S.reg, !.data = S.data, !.pc = "loaded"])

\* runopt.run from a loaded scenario: the Model, the config option, the year loop
run(X, years, disableautoincrement, limit) ==
    IF X.pc = "error" THEN X
    ELSE run_years([X EXCEPT !.model = set_default_production(NewModel, limit),
                             !.call.caller = "run",
                             !.runstate = [NoRun EXCEPT !.years = years,
                                                        !.disableautoincrement = disableautoincrement]])

\* what solver.Solve() may answer with a status
SolverValues(status) ==
    IF status = OPTIMAL THEN Solutions(solver.sv, model.constraints) ELSE {<<>>}

Load(wb) ==
    /\ pc = "start"
    /\ workbook' = wb
    /\ Becomes(loaded(Machine, wb))
    /\ UNCHANGED <<calls, returned>>

\* Loader.get_blends(year, fuel, fuelpool), asked of the loaded data
GetBlends(year, fuel, fuelpool) ==
    /\ pc = "loaded"
    /\ returned' = <<[year |-> year, fuel |-> fuel, fuelpool |-> fuelpool,
                       value |-> Loader_get_blends(registry, year, fuel, fuelpool)]>>
    /\ pc' = "answered"
    /\ UNCHANGED <<registry, data, model, solver, call, runstate, calls, raised, workbook>>

\* Model(data), followed by set_default_production with the config option
ModelInit(limit) ==
    /\ pc = "loaded"
    /\ Becomes([Machine EXCEPT !.model = set_default_production(NewModel, limit), !.pc = "idle"])
    /\ UNCHANGED <<calls, workbook, returned>>

\* model.optimize(year), a cold start
Optimize(year) ==
    /\ pc = "idle"
    /\ Len(calls) < MaxCalls
    /\ Becomes(optimize(Machine, year, FALSE))
    /\ calls' = Append(calls, "optimize")
    /\ UNCHANGED <<workbook, returned>>

\* model.increment_time()
IncrementTime ==
    /\ pc = "idle"
    /\ Len(calls) < MaxCalls
    /\ model.year < 2020 + MaxYears
    /\ Becomes(increment_time(Machine))
    /\ calls' = Append(calls, "increment_time")
    /\ UNCHANGED <<workbook, returned>>

\* solver.Solve() returns
SolverReturn(status) ==
    /\ pc = "solving"
    /\ \E values \in SolverValues(status) : Becomes(after_solve(Machine, status, values))
    /\ UNCHANGED <<calls, workbook, returned>>

\* model.save_results(), read once after the last solve of a session; the
\* model is OPTIMAL, so that every variable has a SolutionValue()
SaveResults(dual, same) ==
    /\ pc = "idle"
    /\ model.status = OPTIMAL
    /\ Len(calls) < MaxCallsBeforeSave
    /\ Becomes(save_results(Machine, dual, same))
    /\ calls' = Append(calls, "save_results")
    /\ UNCHANGED <<workbook, returned>>

\* runopt.run for one scenario, up to the first call of solver.Solve()
Run(wb, years, disableautoincrement, limit) ==
    /\ pc = "start"
    /\ workbook' = wb
    /\ Becomes(run(loaded(Machine, wb), years, disableautoincrement, limit))
    /\ UNCHANGED <<calls, returned>>

Next ==
    \/ \E wb \in Workbooks : Load(wb)
    \/ \E year \in Years, fuel \in BlendNames, fuelpool \in PoolNames :
          GetBlends(year, fuel, fuelpool)
    \/ \E limit \in ProductionChanges : ModelInit(limit)
    \/ \E year \in Years : Optimize(year)
    \/ IncrementTime
    \/ \E status \in Statuses : SolverReturn(status)
    \/ \E dual \in Duals, same \in BOOLEAN : SaveResults(dual, same)
    \/ \E wb \in Workbooks, years \in YearLists, d \in BOOLEAN, limit \in ProductionChanges :
          Run(wb, years, d, limit)

Spec == Init /\ [][Next]_vars

----------------------------------------------------------------------------
(* The registries called directly, as cats/tests/tests.py calls the factories, *)
(* with Loader.load and Loader.reset between the calls                         *)

MaxAdds == 3

\* a scenario that fills every registry
RegistryWorkbook ==
    Workbook([production |-> <<>>,
              coproducts |-> <<[fuel |-> "ajf", basefuel |-> "rd", multiplier |-> 4]>>,
              creditlimits |-> <<[year |-> 2020, credit |-> "Default", min |-> 0, max |-> 100]>>,
              creditsupply |-> <<[year |-> 2020, credit |-> "Default", quantity |-> 10]>>,
              blends |-> <<[year |-> 2020, requirement |-> "ethanol",
                            fuelpool |-> "gas", min |-> 10, max |-> 100]>>],
             NoBounds)

\* the arguments of the calls: names the scenario registers and names it does not
RegistryArgs ==
    [pools |-> {"dsl", "jet"},
     feedstocks |-> {"oil", "algae"},
     fuels |-> {<<"rd", "dsl">>, <<"rd", "gas">>, <<"saf", "jet">>},
     credits |-> {"Default", "LCFS"},
     pathways |-> { PRow(2020, "rd", "dsl", "oil", 70, 500, 10, "Default", "diesel"),
                    PRow(2021, "rd", "dsl", "oil", 90, 1000, 25, "Default", "diesel") },
     coproducts |-> {<<"ajf", "rd", 4>>, <<"ajf", "rd", 7>>},
     blends |-> {<<"ethanol", "gas", 10, 100, 2020>>, <<"ethanol", "gas", 0, 50, 2020>>}]

\* the registries and the loader as a call finds them
Classes == [reg |-> registry, data |-> data, err |-> ""]

\* a call: the registries it leaves, what it returns, what it raises
Called(op, key, S, value) ==
    /\ registry' = S.reg
    /\ data' = S.data
    /\ raised' = S.err
    /\ calls' = Append(calls, op)
    /\ returned' = <<[op |-> op, key |-> key, value |-> IF S.err # "" THEN None ELSE value]>>
    /\ UNCHANGED <<model, solver, pc, call, runstate, workbook>>

AddPool(name) ==
    /\ Len(calls) < MaxAdds
    /\ Called("add_pool", <<name>>, [Classes EXCEPT !.reg = FuelPool_add_pool(@, name)],
              FuelPool_add_pool_return(registry, name))

AddFeedstock(name) ==
    /\ Len(calls) < MaxAdds
    /\ Called("add_feedstock", <<name>>, [Classes EXCEPT !.reg = Feedstock_add_feedstock(@, name)],
              Feedstock_add_feedstock_return(registry, name))

AddFuel(name, fuelpool) ==
    /\ Len(calls) < MaxAdds
    /\ Called("add_fuel", <<name>>, Fuel_add_fuel(Classes, name, fuelpool),
              Fuel_add_fuel_return(registry, name, fuelpool))

AddCredit(name) ==
    /\ Len(calls) < MaxAdds
    /\ Called("add_credit", <<name>>, [Classes EXCEPT !.reg = Credit_add_credit(@, name)],
              Credit_add_credit_return(registry, name))

AddPathway(row) ==
    /\ Len(calls) < MaxAdds
    /\ Called("add_pathway", <<row.fuel, row.feedstock, row.year>>,
              ProductionPathway_add_pathway(Classes, row),
              ProductionPathway_add_pathway_return(registry, row))

AddCoproduct(fuel, basefuel, multiplier) ==
    /\ Len(calls) < MaxAdds
    /\ Called("add_coproduct", <<basefuel, fuel>>,
              [Classes EXCEPT !.reg = Coproducts_add_coproduct(@, fuel, basefuel, multiplier)],
              Coproducts_add_coproduct_return(registry, fuel, basefuel, multiplier))

AddBlend(fuel, fuelpool, minimum, maximum, year) ==
    /\ Len(calls) < MaxAdds
    /\ Called("add", <<year, fuel, fuelpool>>,
              BlendRequirement_add(Classes, fuel, fuelpool, minimum, maximum, year),
              BlendRequirement_add_return(registry, fuel, fuelpool, minimum, maximum, year))

\* ProductionPathway.set_year(year)
SetYear(year) ==
    /\ Len(calls) < MaxAdds
    /\ Called("set_year", <<year>>, [Classes EXCEPT !.reg = ProductionPathway_set_year(@, year)], None)

\* Loader.reset()
Reset ==
    /\ Len(calls) < MaxAdds
    /\ Called("reset", <<>>, Loader_reset(Classes), "True")

\* Loader.load() of the scenario
Reload ==
    /\ Len(calls) < MaxAdds
    /\ Called("load", <<>>, Loader_load(Classes, RegistryWorkbook), None)

RegistryNext ==
    \/ \E name \in RegistryArgs.pools : AddPool(name)
    \/ \E name \in RegistryArgs.feedstocks : AddFeedstock(name)
    \/ \E f \in RegistryArgs.fuels : AddFuel(f[1], f[2])
    \/ \E name \in RegistryArgs.credits : AddCredit(name)
    \/ \E row \in RegistryArgs.pathways : AddPathway(row)
    \/ \E c \in RegistryArgs.coproducts : AddCoproduct(c[1], c[2], c[3])
    \/ \E b \in RegistryArgs.blends : AddBlend(b[1], b[2], b[3], b[4], b[5])
    \/ \E year \in Years : SetYear(year)
    \/ Reset
    \/ Reload

RegistrySpec == Init /\ [][RegistryNext]_vars

----------------------------------------------------------------------------
(* Properties *)

\* the linear program of model.year is complete: the build reached Solve()
LPBuilt == pc \in {"solving", "idle", "done"} /\ solver.solves > 0

\* the solver holds a solution of the linear program
LPSolved == LPBuilt /\ model.status = OPTIMAL /\ Len(solver.values) = Len(solver.sv) /\ solver.sv # <<>>

\* the feedstock-price decision variables, by tier and by fuel
FsVars == {v \in 1..Len(solver.sv) : solver.sv[v].kind = "fs"}
VarsOfTier(feedstock, price) ==
    {v \in FsVars : solver.sv[v].feedstock = feedstock /\ solver.sv[v].price = price}
VarsOfFuel(fuel) == {v \in FsVars : solver.sv[v].fuel = fuel}
VarsOfPool(pool) == {v \in FsVars : Get(registry.Fuel, solver.sv[v].fuel).fuelpool = pool}

\* the variables of a constraint, and the sum of the solution over a set of variables
CoefVars(c) == {c.coef[i][1] : i \in 1..Len(c.coef)}
Total(S) ==
    Fold(LAMBDA acc, v : IF v \in S THEN acc + solver.values[v] ELSE acc, 0,
         [v \in 1..Len(solver.sv) |-> v])

\* the yield of the pathway of a variable, as resolved for the model's year
YieldOf(v) ==
    LET years == Get(Get(registry.PP_feedstock, solver.sv[v].feedstock), solver.sv[v].fuel)
    IN Get(years, closest_value(model.year, Keys(years))).yields

\* the energy of a fuel in the solution
EnergyOf(fuel) ==
    Fold(LAMBDA acc, v : IF v \in VarsOfFuel(fuel) THEN acc + solver.values[v] * YieldOf(v) ELSE acc,
         0, [v \in 1..Len(solver.sv) |-> v])

\* ---- C1 ----
AvailabilityOf(tier) ==
    {i \in 1..Len(model.constraints.feedstock) :
        CoefVars(model.constraints.feedstock[i][2]) \cap tier # {}}

IsAvailability(c, tier, quantity) ==
    /\ c.lb = 0
    /\ c.ub = quantity
    /\ CoefVars(c) = tier
    /\ \A v \in tier : Get(c.coef, v) = 1

TierQuantity(v) == Get(Get(registry.Feedstock, solver.sv[v].feedstock).supply, solver.sv[v].price)
TierOf(v) == VarsOfTier(solver.sv[v].feedstock, solver.sv[v].price)

\* C1: once optimize has built the LP of a year, every (feedstock, price tier)
\* with a decision variable has exactly one availability constraint; its
\* bounds are [0, quantity of the tier], the variables of the tier, of every
\* fuel, have coefficient 1 in it and no other variable is in it; in a
\* solution the variables of the tier sum to at most the tier's quantity.
C1_AvailabilityConstraint ==
    LPBuilt =>
        \A v \in FsVars :
            /\ Cardinality(AvailabilityOf(TierOf(v))) = 1
            /\ \A i \in AvailabilityOf(TierOf(v)) :
                   IsAvailability(model.constraints.feedstock[i][2], TierOf(v), TierQuantity(v))
            /\ LPSolved => Total(TierOf(v)) <= TierQuantity(v)

\* a solved year in which the variables of two fuels share a tier and use it up
C1_TierUsedUp ==
    /\ LPSolved
    /\ \E v \in FsVars :
          /\ Cardinality({solver.sv[w].fuel : w \in TierOf(v)}) >= 2
          /\ Cardinality(AvailabilityOf(TierOf(v))) = 1
          /\ Total(TierOf(v)) = TierQuantity(v)

\* ---- C2 ----
IsDemand(c, pool, demand, exceed) ==
    /\ c.lb = demand
    /\ c.ub = (IF exceed THEN Inf ELSE demand)
    /\ CoefVars(c) = VarsOfPool(pool)
    /\ \A v \in VarsOfPool(pool) : Get(c.coef, v) = YieldOf(v)

\* C2: every fuel pool with demand has one demand constraint in the year's LP;
\* its lower bound is the pool's demand for the year, its upper bound that
\* demand, or +infinity when the pool's exceed flag is set; the variables of
\* the pool's fuels have their pathway's yield as coefficient and no variable
\* of another pool is in it.
C2_DemandConstraint ==
    LPBuilt =>
        \A i \in 1..Len(data.demand) :
            /\ Cardinality({j \in 1..Len(model.constraints.demand) :
                               model.constraints.demand[j][1] = data.demand[i]}) = 1
            /\ IsDemand(Get(model.constraints.demand, data.demand[i]), data.demand[i],
                        FuelPool_getitem(registry, data.demand[i], model.year),
                        Get(registry.FuelPool, data.demand[i]).exceed)

\* an LP with a pool that may exceed its demand, and one with a pool that may not
C2_ExceedingPool ==
    /\ LPBuilt
    /\ \E i \in 1..Len(data.demand) :
          /\ Get(registry.FuelPool, data.demand[i]).exceed
          /\ Get(model.constraints.demand, data.demand[i]).ub = Inf
          /\ Get(model.constraints.demand, data.demand[i]).lb > 0
          /\ VarsOfPool(data.demand[i]) # {}

\* ---- C3 ----
IsCoproduct(c, base, coproduct, multiplier) ==
    /\ c.lb = 0
    /\ c.ub = 0
    /\ CoefVars(c) = VarsOfFuel(base) \cup VarsOfFuel(coproduct)
    /\ \A v \in VarsOfFuel(base) : Has(c.coef, v) /\ Get(c.coef, v) = YieldOf(v) * multiplier
    /\ \A v \in VarsOfFuel(coproduct) : Has(c.coef, v) /\ Get(c.coef, v) = -YieldOf(v)
    /\ LPSolved => EnergyOf(coproduct) = multiplier * EnergyOf(base)

\* C3: for every registered (base fuel, co-product fuel) pair with multiplier
\* m, whatever other co-product relations the two fuels are in, the year's LP
\* has one constraint with bounds [0, 0] in which the base fuel's variables
\* have coefficient +yield x m, the co-product's variables -yield, and no
\* other variable appears, so co-product energy = m x base energy in a solution.
C3_CoproductConstraint ==
    LPBuilt =>
        \A i \in 1..Len(registry.Coproducts) :
            \A j \in 1..Len(registry.Coproducts[i][2]) :
                /\ Has(model.constraints.coproduct, registry.Coproducts[i][1])
                /\ Has(Get(model.constraints.coproduct, registry.Coproducts[i][1]),
                       registry.Coproducts[i][2][j][1])
                /\ IsCoproduct(Get(Get(model.constraints.coproduct, registry.Coproducts[i][1]),
                                   registry.Coproducts[i][2][j][1]),
                               registry.Coproducts[i][1],
                               registry.Coproducts[i][2][j][1],
                               registry.Coproducts[i][2][j][2].multiplier)

\* ---- C4 ----
\* some fuel's effective minimum exceeds its effective maximum
MinimumAboveMaximum(R, L, M) ==
    \E i \in 1..Len(L.fuels) :
        With(effective_bounds(Get(R.Fuel, L.fuels[i]), M.year,
                              M.default_production_limit, M.prior_solution),
             LAMBDA b : ~b.untouched /\ ~b.zerodiv /\ b.minimum > b.maximum)

\* C4: when a call leaves some fuel's effective minimum (the larger of the
\* external and the roll-forward minimum) above its effective maximum (the
\* smaller of the external and the roll-forward maximum), the call has raised
\* and the solver has not been invoked.
C4_MinimumAboveMaximumRaises ==
    [][MinimumAboveMaximum(registry', data', model')
          => pc' = "error" /\ raised' = "Exception" /\ solver'.solves = solver.solves]_vars

\* a roll-forward whose bounds contradict the external ones has raised
C4_ConflictRaised ==
    /\ pc = "error"
    /\ raised = "Exception"
    /\ call.increment_time
    /\ model.prior_solution # <<>>
    /\ MinimumAboveMaximum(registry, data, model)

\* ---- C5 ----
RolledForward(c, p, Q) ==
    /\ c.lb = (IF Less(p, Q) < Threshold THEN 0 ELSE Less(p, Q))
    /\ c.ub = Max2(More(p, Q), FloorVolume)

NoExternalBound(fuel, year) == ~Has(fuel.supply, year) /\ ~Has(fuel.limits, year)

\* C5: for any default change limit p and any fuel with realized production
\* Q > 0 and no external minimum or limit for the next year, the supply
\* constraint increment_time builds for the next year has lower bound 0 when
\* (1 - p)Q is below the materiality threshold and (1 - p)Q otherwise, and
\* upper bound max((1 + p)Q, floorVolume).
C5_RollForwardBounds ==
    [][(pc = "idle" /\ pc' = "solving" /\ call'.increment_time) =>
          With(calculate_fuel_supply(registry, model, solver.values),
               LAMBDA supply :
                  \A i \in 1..Len(supply) :
                      (supply[i][2] > 0
                          /\ NoExternalBound(Get(registry.Fuel, supply[i][1]), model'.year))
                      => /\ Has(model'.constraints.supply, supply[i][1])
                         /\ RolledForward(Get(model'.constraints.supply, supply[i][1]),
                                          model.default_production_limit, supply[i][2]))]_vars

\* ---- C6 ----
ExternalOnly(fuel, minimum, maximum) ==
    IF (minimum = 0 /\ maximum = Inf) \/ (minimum = 0 /\ maximum = 0)
    THEN ~Has(model.constraints.supply, fuel)
    ELSE /\ Has(model.constraints.supply, fuel)
         /\ Get(model.constraints.supply, fuel).lb = minimum
         /\ Get(model.constraints.supply, fuel).ub = maximum

ColdStart ==
    ~call.increment_time =>
        /\ model.prior_solution = <<>>
        /\ LPBuilt =>
              \A i \in 1..Len(data.fuels) :
                  ExternalOnly(data.fuels[i],
                               GetOr(Get(registry.Fuel, data.fuels[i]).supply, model.year, <<0>>)[1],
                               GetOr(Get(registry.Fuel, data.fuels[i]).limits, model.year, <<Inf>>)[1])

RollForwardStep ==
    (pc = "idle" /\ call'.increment_time /\ model'.year = model.year + 1) =>
        model'.prior_solution =
            calculate_incremental_limits(calculate_fuel_supply(registry, model, solver.values),
                                         model.default_production_limit)

RetryStep ==
    (pc = "solving" /\ model'.status = ABNORMAL /\ pc' = "solving") =>
        /\ model'.prior_solution = model.prior_solution
        /\ call' = call
        /\ model'.year = model.year

\* C6: an optimize without the roll-forward flag empties the roll-forward
\* bounds before it builds, so the year's supply constraints are the external
\* bounds alone; the optimize of increment_time keeps exactly the bounds
\* derived from the year just solved, and an ABNORMAL retry keeps them too.
C6_ColdStartClears == []ColdStart /\ [][RollForwardStep /\ RetryStep]_vars

\* a cold start that follows a roll-forward
C6_ColdAfterRollForward ==
    /\ calls = <<"optimize", "increment_time", "optimize">>
    /\ pc = "solving"
    /\ ~call.increment_time
    /\ model.prior_solution = <<>>

\* ---- C7 ----
Retried ==
    /\ model'.status = ABNORMAL
    /\ model.tolerance <= ToleranceCeiling
    /\ model'.tolerance = model.tolerance * 10
    /\ pc' = "solving"
    /\ solver'.solves = solver.solves + 1
    /\ model'.year = model.year
    /\ call' = call

GaveUp ==
    /\ model'.status = ABNORMAL
    /\ model.tolerance > ToleranceCeiling
    /\ model'.tolerance = model.tolerance
    /\ pc' = "error"
    /\ raised' = "Exception"
    /\ solver'.solves = solver.solves

Answered ==
    /\ model'.status \in Statuses \ {ABNORMAL}
    /\ model'.tolerance = model.tolerance
    /\ call.caller = "api" => pc' = "idle" /\ solver'.solves = solver.solves
    /\ call.caller = "run" =>
          (pc' = "solving" => /\ model'.year = runstate'.year
                              /\ Len(runstate'.years) < Len(runstate.years))

\* C7: every ABNORMAL status multiplies the tolerance by 10 and rebuilds and
\* re-solves the same year with the same flag, unless the tolerance is above
\* the ceiling, and then optimize raises; any other status is returned without
\* a retry (in run, the next solve is that of a later year of the list); the
\* tolerance is bounded, so the cycles of one call are too.
C7_BoundedRetry ==
    /\ [](model.tolerance <= ToleranceCeiling * 10)
    /\ [][pc = "solving" => (Retried \/ GaveUp \/ Answered)]_vars

\* the retries of a call have ended in the fatal error
C7_CeilingReached ==
    /\ pc = "error"
    /\ raised = "Exception"
    /\ model.status = ABNORMAL
    /\ model.tolerance > ToleranceCeiling
    /\ solver.solves > 1

\* ---- C8 ----
InfeasibleInRun == call.caller = "run" /\ model.status = INFEASIBLE

\* C8: in run, a year whose solve ends INFEASIBLE has no results saved or
\* written, and the run stops there: no later year is optimized.
C8_InfeasibleStopsRun ==
    /\ [](InfeasibleInRun =>
             /\ pc = "done"
             /\ model.results = NoResults
             /\ ~InList(runstate.written, model.year)
             /\ runstate.solved # <<>>
             /\ runstate.solved[Len(runstate.solved)] = model.year)
    /\ [][~InfeasibleInRun]_vars

\* a run stopped by an INFEASIBLE year with years left to do
C8_StoppedEarly ==
    /\ InfeasibleInRun
    /\ pc = "done"
    /\ runstate.years # <<>>

\* ---- C9 ----
UndefinedFeedstock ==
    \E i \in 1..Len(workbook.production) :
        \A j \in 1..Len(workbook.feedstock) :
            workbook.feedstock[j].feedstock # workbook.production[i].feedstock

CreditOfNoPathway(rows) ==
    \E i \in 1..Len(rows) :
        \A j \in 1..Len(workbook.production) : workbook.production[j].credit # rows[i].credit

UndefinedBenchmark ==
    \E i \in 1..Len(workbook.production) :
        \A j \in 1..Len(workbook.lcfs) :
            workbook.lcfs[j].benchmark # workbook.production[i].benchmark

UndefinedBlendAsked ==
    /\ returned # <<>>
    /\ ~BR_registered(registry, returned[1].year, returned[1].fuel, returned[1].fuelpool)

\* C9: every configuration-integrity violation raises where it is met, none
\* is skipped or answered with a default: a pathway of an undefined
\* feedstock, a credit limit or supply of an undefined credit program, a
\* blend-requirement lookup of an undefined (year, requirement, pool), a
\* pathway whose benchmark is not defined.
C9_IntegrityViolationsRaise ==
    /\ UndefinedFeedstock => pc = "error"
    /\ CreditOfNoPathway(workbook.creditlimits) => pc = "error"
    /\ CreditOfNoPathway(workbook.creditsupply) => pc = "error"
    /\ UndefinedBlendAsked => pc = "error"
    /\ UndefinedBenchmark => solver.solves = 0

\* ---- C10 ----
OnlyPeriodMoves ==
    /\ \A field \in DOMAIN registry \ {"period"} : registry'[field] = registry[field]
    /\ DOMAIN registry' = DOMAIN registry
    /\ registry'.period \in {registry.period, model'.year}

\* C10: optimize and increment_time leave every registry as it was; the one
\* process-wide field they write is the current period of ProductionPathway,
\* which becomes the year being solved.
C10_RegistriesKept == [][(pc \in {"idle", "solving"}) => OnlyPeriodMoves]_vars

\* C10 as stated: nothing of the registries changes, the process-wide fields included
C10_NothingChanges == [][(pc \in {"idle", "solving"}) => registry' = registry]_vars

\* two calls later the registries are those of the load, and the period is the last year
C10_PeriodMoved ==
    /\ Len(calls) >= 2
    /\ pc = "idle"
    /\ registry.period = 2021
    /\ registry.Fuel # <<>>

\* ---- C11 ----
\* the latest of the years a pathway is registered for
LatestYear(byyear) == CHOOSE y \in {byyear[k][1] : k \in 1..Len(byyear)} :
                          \A k \in 1..Len(byyear) : byyear[k][1] <= y

ResolvesByPeriod(pathway, byyear) ==
    /\ Has(byyear, registry.period) => pathway = Get(byyear, registry.period)
    /\ (\A k \in 1..Len(byyear) : registry.period > byyear[k][1]) =>
           pathway = Get(byyear, LatestYear(byyear))
    /\ registry.period = NoYear => pathway = Get(byyear, LatestYear(byyear))

AllPathways(R) ==
    Fold(LAMBDA acc, item :
            Fold(LAMBDA acc2, value : acc2 \o Values(value[2]), acc, item[2]),
         <<>>, R.PP_feedstock)

CurveHoldsTier(pw, tier) ==
    /\ Has(pw.supplycurve, (pw.conversioncost + tier[1]) \div pw.yields)
    /\ Get(pw.supplycurve, (pw.conversioncost + tier[1]) \div pw.yields) = pw.yields * tier[2]

\* C12: for every price tier (price, quantity) the feedstock holds when a
\* pathway is constructed, the pathway's supply curve maps the cost key
\* floor((conversionCost + price) / yield) to yield x quantity.
C12_SupplyCurve ==
    \A i \in 1..Len(AllPathways(registry)) :
        \A k \in 1..Len(Get(registry.Feedstock, AllPathways(registry)[i].feedstock).supply) :
            CurveHoldsTier(AllPathways(registry)[i],
                           Get(registry.Feedstock, AllPathways(registry)[i].feedstock).supply[k])

\* the last direct call was this factory, and it returned
Added(op) == returned # <<>> /\ returned[1].op = op /\ raised = ""

FactoryNames ==
    {"add_pool", "add_feedstock", "add_fuel", "add_credit", "add_pathway", "add_coproduct", "add"}

\* a factory's key is registered, and the entity registered under it
KeyRegistered(R, op, key) ==
    CASE op = "add_pool" -> Has(R.FuelPool, key[1])
      [] op = "add_feedstock" -> Has(R.Feedstock, key[1])
      [] op = "add_fuel" -> Has(R.Fuel, key[1])
      [] op = "add_credit" -> Has(R.Credit, key[1])
      [] op = "add_pathway" -> PP_registered(R, key[1], key[2], key[3])
      [] op = "add_coproduct" -> Has(GetOr(R.Coproducts, key[1], <<>>), key[2])
      [] op = "add" -> BR_registered(R, key[1], key[2], key[3])

EntityOf(R, op, key) ==
    CASE op = "add_pool" -> Get(R.FuelPool, key[1])
      [] op = "add_feedstock" -> Get(R.Feedstock, key[1])
      [] op = "add_fuel" -> Get(R.Fuel, key[1])
      [] op = "add_credit" -> Get(R.Credit, key[1])
      [] op = "add_pathway" -> Get(Get(Get(R.PP_feedstock, key[2]), key[1]), key[3])
      [] op = "add_coproduct" -> Get(Get(R.Coproducts, key[1]), key[2])
      [] op = "add" -> Get(Get(Get(R.BlendRequirement, key[1]), key[2]), key[3])

\* a factory called with a registered key returns the registered entity and
\* leaves every registry as it was
RegisteredKeyKept ==
    (/\ Len(calls') > Len(calls)
     /\ returned'[1].op \in FactoryNames
     /\ KeyRegistered(registry, returned'[1].op, returned'[1].key))
    => /\ registry' = registry
       /\ raised' = ""
       /\ returned'[1].value = EntityOf(registry, returned'[1].op, returned'[1].key)

\* the get of a class, asked with the key of the last add, returns what the add returned
GetReturnsAdded ==
    LET key == returned[1].key
        value == returned[1].value
    IN /\ Added("add_pool") => FuelPool_get(registry, key[1]) = value
       /\ Added("add_feedstock") => Feedstock_get(registry, key[1]) = value
       /\ Added("add_fuel") => Fuel_get(registry, key[1]) = value
       /\ Added("add_credit") => Credit_get(registry, key[1]) = value
       /\ Added("add") => BlendRequirement_get(registry, key[1], key[2], key[3]) = value
       /\ Added("add_coproduct") =>
             Coproducts_get_multiplier(registry, key[2], key[1]) = value.multiplier

\* the year ProductionPathway.get resolves a (feedstock, fuel) pair to
ResolvedYear(feedstock, fuel) == ProductionPathway_get(registry, feedstock, fuel).year

PathwayGetReturnsAdded ==
    Added("add_pathway") =>
        ProductionPathway_get(registry, returned[1].key[2], returned[1].key[1]) = returned[1].value

\* ProductionPathway.get returns the added pathway exactly when the year of the
\* pathway is the one the period resolves to
PathwayGetByPeriod ==
    Added("add_pathway") =>
        (ProductionPathway_get(registry, returned[1].key[2], returned[1].key[1]) = returned[1].value
            <=> ResolvedYear(returned[1].key[2], returned[1].key[1]) = returned[1].key[3])

\* C13 as stated: every factory is get-or-create: with a registered key it
\* returns the entity first registered and changes neither the registry nor
\* the entity, whatever the other arguments; after an add the matching get
\* returns that same entity
C13_GetOrCreate ==
    [](GetReturnsAdded /\ PathwayGetReturnsAdded) /\ [][RegisteredKeyKept]_vars

\* C13, amended: as stated, but ProductionPathway.get(feedstock, fuel) returns
\* the added pathway only when its year is the registered year nearest to the
\* current period (the latest registered year when no period is set)
C13_GetOrCreateByPeriod ==
    [](GetReturnsAdded /\ PathwayGetByPeriod) /\ [][RegisteredKeyKept]_vars

\* add_pathway was called for a registered (fuel, feedstock, year) with another
\* yield and cost, and returned the pathway registered first
C13_RegisteredPathwayReturned ==
    /\ Added("add_pathway")
    /\ returned[1].key = <<"rd", "oil", 2020>>
    /\ returned[1].value.yields = 1000
    /\ returned[1].value.conversioncost = 100
    /\ ResolvedYear("oil", "rd") = 2020
\* every registry of the classes is empty
RegistriesEmpty(R) ==
    /\ R.Fuel = <<>> /\ R.FuelPool = <<>> /\ R.LCFS = <<>>
    /\ R.PP_feedstock = <<>> /\ R.PP_fuels = <<>>
    /\ R.Credit = <<>> /\ R.Feedstock = <<>>
    /\ R.BlendRequirement = <<>> /\ R.Coproducts = <<>>

\* the loader's own maps are empty and its status is NO DATA
LoaderEmpty(L) ==
    /\ L.demand = <<>> /\ L.fuels = <<>> /\ L.feedstocks = <<>>
    /\ L.productionpathways = <<>> /\ L.credits = <<>> /\ L.blends = <<>>
    /\ L.status = "NO DATA"

\* the registries a load of the scenario leaves in a process that made no call before
FirstLoad == Loader_load([reg |-> EmptyRegistry, data |-> NewLoader, err |-> ""], RegistryWorkbook)

\* C14: after Loader.reset() every registry and every map of the loader is
\* empty and the status is NO DATA, whatever calls came before; a load resets
\* first, so that the registries after it hold the loaded scenario and nothing
\* registered before
C14_ResetEmpties ==
    /\ (returned # <<>> /\ returned[1].op = "reset") =>
            RegistriesEmpty(registry) /\ LoaderEmpty(data)
    /\ (returned # <<>> /\ returned[1].op = "load") =>
            /\ registry = [FirstLoad.reg EXCEPT !.period = registry.period]
            /\ data = FirstLoad.data
            /\ raised = FirstLoad.err

\* a reset after a load and an add of a pathway for a further year
C14_ResetAfterAdds == calls = <<"load", "add_pathway", "reset">> /\ raised = ""
\* the decision variables tagged (fuel, feedstock, price)
VarsTagged(fuel, feedstock, price) ==
    {v \in VarsOfTier(feedstock, price) : solver.sv[v].fuel = fuel}

\* the fuels with a pathway from a feedstock, in any registered year
FuelsFrom(feedstock) ==
    IF Has(registry.PP_feedstock, feedstock)
    THEN {Keys(Get(registry.PP_feedstock, feedstock))[i] :
            i \in 1..Len(Get(registry.PP_feedstock, feedstock))}
    ELSE {}

\* exactly one variable for a tier of a feedstock and a fuel, bounded by the tier
OneVariable(fuel, feedstock, tier) ==
    /\ Cardinality(VarsTagged(fuel, feedstock, tier[1])) = 1
    /\ \A v \in VarsTagged(fuel, feedstock, tier[1]) :
          solver.sv[v].lb = 0 /\ solver.sv[v].ub = tier[2]

\* C15: after variable construction there is, for each feedstock F, each fuel U
\* with a pathway from F and each price tier (p, q) of F, exactly one decision
\* variable tagged (U, F, p), bounded [0, q], however many years the pathway is
\* registered for; a feedstock without pathway has no variable
C15_OneVariablePerTier ==
    LPBuilt =>
        \A i \in 1..Len(registry.Feedstock) :
            LET F == registry.Feedstock[i][2]
            IN /\ \A U \in FuelsFrom(F.name) : \A t \in 1..Len(F.supply) :
                     OneVariable(U, F.name, F.supply[t])
               /\ FuelsFrom(F.name) = {} =>
                     \A v \in FsVars : solver.sv[v].feedstock # F.name
\* a fuel has an external minimum or maximum for the year, or a roll-forward bound
HasSupplyBound(fuel) ==
    \/ Has(fuel.supply, model.year)
    \/ Has(fuel.limits, model.year)
    \/ Has(model.prior_solution, fuel.name)

\* the supply constraint of a fuel is there, with the larger of the minimums and
\* the smaller of the maximums as the build computes them for the year
SupplyConstraintOf(fuel) ==
    With(effective_bounds(fuel, model.year, model.default_production_limit, model.prior_solution),
         LAMBDA b :
            /\ Has(model.constraints.supply, fuel.name)
            /\ Get(model.constraints.supply, fuel.name).lb = b.minimum
            /\ Get(model.constraints.supply, fuel.name).ub = b.maximum)

\* C16: each fuel with an external minimum for the year, an external maximum
\* for the year or a roll-forward bound has a supply constraint in the year's
\* LP, bounded [max(external minimum, roll-forward minimum), min(external
\* maximum, roll-forward maximum)], a missing minimum counting as 0 and a
\* missing maximum as +infinity; a fuel with none of the three has none
C16_SupplyConstraints ==
    LPBuilt =>
        \A i \in 1..Len(data.fuels) :
            IF HasSupplyBound(Get(registry.Fuel, data.fuels[i]))
            THEN SupplyConstraintOf(Get(registry.Fuel, data.fuels[i]))
            ELSE ~Has(model.constraints.supply, data.fuels[i])
\* the percent-change limit a fuel defines for a year: 0 stands for none
OwnLimit(fuel, year) == GetOr(fuel.limits, year, <<Inf, 0>>)[2]

\* the supply constraint of a fuel combines the external bounds of the year
\* with given roll-forward bounds
CombinedWith(fuel, year, constraints, rfmin, rfmax) ==
    /\ Has(constraints.supply, fuel.name)
    /\ Get(constraints.supply, fuel.name).lb = Max2(GetOr(fuel.supply, year, <<0>>)[1], rfmin)
    /\ Get(constraints.supply, fuel.name).ub = Min2(GetOr(fuel.limits, year, <<Inf>>)[1], rfmax)

\* the supply constraint of a fuel uses roll-forward bounds recomputed from its
\* realized production Q with its own limit f
RecomputedFrom(fuel, Q, year, constraints) ==
    CombinedWith(fuel, year, constraints,
                 Less(OwnLimit(fuel, year), Q),
                 Max2(More(OwnLimit(fuel, year), Q), FloorVolume))

OwnLimitStep ==
    (pc = "idle" /\ pc' = "solving" /\ call'.increment_time) =>
        With(calculate_fuel_supply(registry, model, solver.values),
             LAMBDA supply :
                \A i \in 1..Len(supply) :
                    OwnLimit(Get(registry.Fuel, supply[i][1]), model'.year) # 0 =>
                        RecomputedFrom(Get(registry.Fuel, supply[i][1]), supply[i][2],
                                       model'.year, model'.constraints))

\* C17: for a fuel that defines its own percent-change limit f for the next
\* year and had realized production Q, the roll-forward bounds used for the
\* next year are recomputed from Q with f in place of the default percent:
\* minimum (1 - f)Q and maximum max((1 + f)Q, floorVolume)
C17_OwnPercentLimit == [][OwnLimitStep]_vars
\* the pathways resolved for the model's year whose benchmark has a standard for it
WithStandard ==
    SelectList(PP_resolved(registry, model.year),
               LAMBDA pw : /\ Has(registry.LCFS, pw.benchmark)
                           /\ LCFS_getitem(Get(registry.LCFS, pw.benchmark), model.year) # NoneNumber)

StandardOf(pw) == LCFS_getitem(Get(registry.LCFS, pw.benchmark), model.year)

\* (S - CI/EER) x yield x EER, in units of 1e-6
CreditsPerTon(pw) == (StandardOf(pw) * pw.eer - pw.ci) * pw.yields

\* the feedstock-price variables of a pathway
VarsOfPathway(pw) == {v \in VarsOfFuel(pw.fuel) : solver.sv[v].feedstock = pw.feedstock}

CoefficientIn(c, v) == GetOr(c.coef, v, 0)

\* the feedstock-price variables whose coefficient in the total constraint is negative
NegativeInTotal == {v \in FsVars : CoefficientIn(Get(model.constraints.ci, "total"), v) < 0}

DeficitFuels == {model.deficit_fuels[i] : i \in 1..Len(model.deficit_fuels)}

\* every variable of a pathway has the coefficient in the constraint of the
\* pathway's credit program and in the total constraint
HasCreditsPerTon(pw) ==
    With(CreditsPerTon(pw), LAMBDA coef :
        /\ Has(model.constraints.ci, pw.credit)
        /\ \A v \in VarsOfPathway(pw) :
              /\ Has(Get(model.constraints.ci, pw.credit).coef, v)
              /\ Has(Get(model.constraints.ci, "total").coef, v)
              /\ CoefficientIn(Get(model.constraints.ci, pw.credit), v) = coef
              /\ CoefficientIn(Get(model.constraints.ci, "total"), v) = coef)

CreditVars(credit) ==
    {v \in 1..Len(solver.sv) : solver.sv[v].kind = "credit" /\ solver.sv[v].fuel = credit}

\* one credit variable of a program, with its bounds and its coefficient in the
\* constraint of the program and in the total constraint
OneCreditVariable(credit, lb, ub, coef) ==
    /\ Cardinality(CreditVars(credit)) = 1
    /\ \A v \in CreditVars(credit) :
          /\ solver.sv[v].lb = lb
          /\ solver.sv[v].ub = ub
          /\ Has(Get(model.constraints.ci, credit).coef, v)
          /\ Has(Get(model.constraints.ci, "total").coef, v)
          /\ CoefficientIn(Get(model.constraints.ci, credit), v) = coef
          /\ CoefficientIn(Get(model.constraints.ci, "total"), v) = coef

\* the external supply of a credit program for the model's year, 0 when there is none
CreditSupply(credit) == GetOr(credit.supply, model.year, 0)

\* C19: for each credit program and year, a positive external supply s makes
\* one credit variable bounded [0, s] that enters the program's constraint and
\* the total constraint with +1; a negative supply s makes one bounded
\* [-s, +infinity) that enters both with -1; a zero or missing supply makes none
C19_CreditVariables ==
    LPBuilt =>
        \A i \in 1..Len(registry.Credit) :
            With(CreditSupply(registry.Credit[i][2]), LAMBDA s :
                IF s > 0 THEN OneCreditVariable(registry.Credit[i][1], 0, s, 1)
                ELSE IF s < 0 THEN OneCreditVariable(registry.Credit[i][1], -s, Inf, -1)
                ELSE CreditVars(registry.Credit[i][1]) = {})

\* an obligation of 10 credits entered the solved LP with -1
C19_ObligationCovered ==
    /\ LPSolved
    /\ CreditSupply(Get(registry.Credit, "Default")) = -10
    /\ \E v \in CreditVars("Default") :
          /\ solver.sv[v].lb = 10
          /\ solver.values[v] >= 10
          /\ CoefficientIn(Get(model.constraints.ci, "total"), v) = -1
\* the pathway of a feedstock-price variable, as resolved for the year being solved
PathwayOf(v) == ProductionPathway_get(registry, solver.sv[v].feedstock, solver.sv[v].fuel)

\* the share coefficients of a variable for a requirement, in hundredths:
\* yield x minimum and -yield x maximum, with the yield taken off the first
\* and added to the second for the targeted pathway, 0 outside the pool
MinimumShare(req, v) ==
    IF Get(registry.Fuel, solver.sv[v].fuel).fuelpool # req.fuelpool THEN 0
    ELSE PathwayOf(v).yields * req.minimum
            - (IF PathwayOf(v).blend = req.requirement THEN 100 * PathwayOf(v).yields ELSE 0)

MaximumShare(req, v) ==
    IF Get(registry.Fuel, solver.sv[v].fuel).fuelpool # req.fuelpool THEN 0
    ELSE (IF PathwayOf(v).blend = req.requirement THEN 100 * PathwayOf(v).yields ELSE 0)
            - PathwayOf(v).yields * req.maximum

\* the two constraints of a requirement, with their bounds and coefficients
BlendConstraints(req) ==
    /\ Has(model.constraints.blend, req.name)
    /\ With(Get(model.constraints.blend, req.name), LAMBDA pair :
          /\ pair[1].lb = -Inf /\ pair[1].ub = 0
          /\ pair[2].lb = -Inf /\ pair[2].ub = 0
          /\ \A v \in FsVars :
                /\ CoefficientIn(pair[1], v) = MinimumShare(req, v)
                /\ CoefficientIn(pair[2], v) = MaximumShare(req, v))

\* C20: for each blend requirement active in the year there are two
\* constraints bounded (-infinity, 0]: in the minimum-share constraint every
\* feedstock-price variable of a fuel of the requirement's pool has the
\* coefficient yield x minimumPct, less the yield when its pathway is the one
\* the requirement targets; in the maximum-share constraint it has
\* -yield x maximumPct, plus the yield for the targeted pathway; variables of
\* fuels outside the pool have coefficient 0 in both
C20_BlendConstraints ==
    LPBuilt =>
        With(Loader_blend_list(data, model.year), LAMBDA blend_list :
            /\ Len(model.constraints.blend) = Len(blend_list)
            /\ \A i \in 1..Len(blend_list) : BlendConstraints(blend_list[i]))

\* a solved year with a minimum share of 10 percent for the targeted fuel: its
\* variable has -90 percent of the yield, the other fuel of the pool has 10
\* percent, and the solution holds the share
C20_TargetedShareSolved ==
    /\ LPSolved
    /\ \E i \in 1..Len(model.constraints.blend) :
          With(model.constraints.blend[i][2][1], LAMBDA min_c :
              /\ \E v \in VarsOfFuel("e85") : CoefficientIn(min_c, v) = -90 * 1000
              /\ \E v \in VarsOfFuel("eth") : CoefficientIn(min_c, v) = 10 * 1000
              /\ \A v \in VarsOfPool("dsl") : ~Has(min_c.coef, v)
              /\ Total(VarsOfFuel("e85")) > 0)
\* the sum of the subsidies the workbook's rows give to a pathway
SubsidyOf(pw) ==
    Fold(LAMBDA acc, row :
            IF row.fuel = pw.fuel /\ row.feedstock = pw.feedstock /\ row.year = pw.year
            THEN acc + row.subs ELSE acc,
         0, workbook.production)

\* C21: every feedstock-price variable for (fuel, feedstock, price) has the
\* objective coefficient conversionCost + price - subsidy x yield of the
\* pathway resolved for the year being solved, the subsidy being the sum of
\* all amounts added to that pathway by add_subsidy
C21_ObjectiveCoefficient ==
    LPBuilt =>
        \A v \in FsVars :
            With(PathwayOf(v), LAMBDA pw :
                /\ pw.year = closest_value(model.year, Keys(Get(Get(registry.PP_feedstock, pw.feedstock), pw.fuel)))
                /\ solver.sv[v].obj = pw.conversioncost + solver.sv[v].price
                                          - SubsidyOf(pw) * pw.yields)

\* the year after the first is built with the pathway of that year, which two
\* rows subsidise
C21_SubsidisedPathwayPriced ==
    /\ LPBuilt
    /\ model.year = 2021
    /\ \E v \in VarsOfFuel("rd") :
          solver.sv[v].price = 10 /\ solver.sv[v].obj = 90 + 10 - (2 + 3) * 1000
\* the slack variables of a fuel
SlackVars(fuel) ==
    {v \in 1..Len(solver.sv) : solver.sv[v].kind = "slack" /\ solver.sv[v].fuel = fuel}

\* the credit programs of the pathways of a fuel
CreditsOfFuel(fuel) ==
    {pw.credit : pw \in {PathwayOf(v) : v \in VarsOfFuel(fuel)}}

\* the slack variable of a fuel can take up a shortfall of the demand of the
\* fuel's pool and of the limits of its credit programs
SlackRelieves(fuel, v) ==
    /\ CoefficientIn(Get(model.constraints.demand, Get(registry.Fuel, fuel).fuelpool), v) # 0
    /\ \A credit \in CreditsOfFuel(fuel) :
          CoefficientIn(Get(model.constraints.ci, credit), v) # 0

\* C22: each fuel has exactly one slack variable, bounded [0, +infinity) with
\* the objective coefficient 100000, and the slack variable has a non-zero
\* coefficient in the demand constraint and in the credit limit it is the
\* escape valve of
C22_SlackEscapeValve ==
    LPBuilt =>
        \A i \in 1..Len(data.fuels) :
            /\ Cardinality(SlackVars(data.fuels[i])) = 1
            /\ \A v \in SlackVars(data.fuels[i]) :
                  /\ solver.sv[v].lb = 0
                  /\ solver.sv[v].ub = Inf
                  /\ solver.sv[v].obj = SlackPenalty
                  /\ SlackRelieves(data.fuels[i], v)

\* a Model that has built nothing yet, with the year, the roll-forward bounds
\* and the production limit of the model
FreshModel ==
    [model EXCEPT !.variables = NewModel.variables, !.constraints = NoConstraints,
                  !.deficit_fuels = <<>>]

\* what _add_feedstocks and _add_constraints build for the year from nothing
FreshBuild == add_constraints(registry, data, FreshModel, add_feedstocks(registry, data, FreshModel))

\* every variable the maps and the constraints name is a variable of the solver
VariablesOfTheSolver ==
    /\ \A i \in 1..Len(model.variables.credits) : model.variables.credits[i][2] \in 1..Len(solver.sv)
    /\ With(AllConstraints(model.constraints), LAMBDA cs :
            \A i \in 1..Len(cs) : CoefVars(cs[i]) \subseteq 1..Len(solver.sv))

EarlierYears(bm, year) == {y \in {bm.standards[i][1] : i \in 1..Len(bm.standards)} : y < year}

\* the standard of the last year before the year that has one
NearestEarlier(bm, year) ==
    Get(bm.standards, CHOOSE y \in EarlierYears(bm, year) : \A z \in EarlierYears(bm, year) : z <= y)

\* C24: an LCFS benchmark lookup for a year that has no standard of its own
\* returns the standard of the nearest earlier year that has one, never that
\* of a later year while an earlier defined year exists; the credit
\* coefficients of the year are built from that standard
C24_NearestEarlierStandard ==
    LPBuilt =>
        \A i \in 1..Len(registry.LCFS) :
            With(registry.LCFS[i][2], LAMBDA bm :
                (~Has(bm.standards, model.year) /\ EarlierYears(bm, model.year) # {}) =>
                    With(NearestEarlier(bm, model.year), LAMBDA standard :
                        /\ LCFS_getitem(bm, model.year) = standard
                        /\ With(ProductionPathway_get_benchmark(registry, bm.name, model.year),
                                LAMBDA pathways :
                                   \A j \in 1..Len(pathways) : \A v \in VarsOfPathway(pathways[j]) :
                                       CoefficientIn(Get(model.constraints.ci, "total"), v)
                                           = ci_coefficient(standard, pathways[j]))))

\* save_results has returned the results of the model's year
Saved == pc = "saved" /\ Has(model.results.years, model.year)

\* the rows of the model's year
RowsOfTheYear == Get(model.results.years, model.year)

\* the pathways that have feedstock-price variables, in the order of the variable map
SolvedPathways ==
    Fold(LAMBDA acc, kv :
            Fold(LAMBDA a, fp : IF fp[1] = "slack" THEN a
                                ELSE Append(a, ProductionPathway_get(registry, fp[1], kv[1])),
                 acc, kv[2]),
         <<>>, model.variables.feedstock)

\* the display name of a pathway: its results name, the raw fuel name when none is given
DisplayName(pw) ==
    IF pw.results.raggregator \in {None, NaN, ""} THEN pw.fuel ELSE pw.results.raggregator

ResultMultiplier(pw) ==
    IF pw.results.raggregator \in {None, NaN, ""} THEN 1 ELSE pw.results.rmultiplier

\* the energy solved for a pathway
SolvedEnergy(pw) ==
    Fold(LAMBDA t, v : t + solver.values[v] * pw.yields, 0,
         Get(Get(model.variables.feedstock, pw.fuel), pw.feedstock))

\* C25: after save_results for an OPTIMAL year, the quantity row of each
\* display name equals the sum, over all (fuel, feedstock) pathways that map to
\* that display name (the raw fuel name when none is given), of solved energy
\* x result multiplier, and nothing else is added to that row
C25_QuantityRows ==
    Saved =>
        With(SolvedPathways, LAMBDA pathways :
            \A i \in 1..Len(pathways) :
                /\ Has(RowsOfTheYear, DisplayName(pathways[i]))
                /\ Get(RowsOfTheYear, DisplayName(pathways[i]))
                     = Fold(LAMBDA t, pw : IF DisplayName(pw) = DisplayName(pathways[i])
                                           THEN t + SolvedEnergy(pw) * ResultMultiplier(pw) ELSE t,
                            0, pathways))

\* the fuels whose slack variable has a value above zero
RelaxedFuels == {solver.sv[v].fuel : v \in {w \in 1..Len(solver.sv) :
                                               solver.sv[w].kind = "slack" /\ solver.values[w] > 0}}

\* C26: whenever a fuel's slack variable has a non-zero value in the solved
\* year, the results returned by save_results for that year show it: a row
\* categorized "RelaxedConstraint" carrying the slack value is present for
\* that fuel in the final results table
C26_RelaxedConstraintShown ==
    Saved =>
        \A fuel \in RelaxedFuels :
            /\ Has(RowsOfTheYear, fuel)
            /\ Has(model.results.Category, fuel)
            /\ Get(model.results.Category, fuel) = "RelaxedConstraint"
            /\ Get(RowsOfTheYear, fuel) = solver.values[Get(Get(model.variables.feedstock, fuel), "slack")]

\* run has gone through its whole year list
RunCompleted ==
    call.caller = "run" /\ pc = "done" /\ runstate.years = <<>> /\ model.status # INFEASIBLE

\* the number of solves run has started for a year
SolvesOf(year) == Cardinality({j \in 1..Len(runstate.solved) : runstate.solved[j] = year})

\* C27: in run, every year in a scenario's year list is solved exactly once, by
\* optimize or by increment_time, before results are saved for that year, with
\* auto-increment enabled as well as disabled; results saved for a year always
\* come from a solve of that year
C27_EveryYearSolvedOnce ==
    /\ RunCompleted =>
          \A i \in 1..Len(runstate.written) : SolvesOf(runstate.written[i]) = 1
    /\ (call.caller = "run" /\ raised = "TypeError") =>
          /\ runstate.solved # <<>>
          /\ runstate.solved[Len(runstate.solved)] = runstate.year
          /\ model.year = runstate.year

\* increment_time is called on a model whose last solve did not end OPTIMAL
IncrementUnsolved ==
    /\ pc = "idle"
    /\ model.status # OPTIMAL
    /\ calls' = Append(calls, "increment_time")

\* run calls increment_time for the next year after a solve that did not end OPTIMAL
IncrementUnsolvedInRun ==
    /\ pc = "solving"
    /\ call.caller = "run"
    /\ ~runstate.disableautoincrement
    /\ model'.status \in {NOT_SOLVED}
    /\ runstate'.year = model.year + 1

\* the call raises and leaves everything as it was
RaisesUnchanged ==
    /\ pc' = "error"
    /\ raised' = "Exception"
    /\ model' = [model EXCEPT !.status = model'.status]
    /\ solver'.sv = solver.sv
    /\ solver'.solves = solver.solves
    /\ registry' = registry
    /\ data' = data

\* C28: increment_time called when the last solve did not end OPTIMAL raises
\* an error and changes nothing: the model's year, roll-forward bounds,
\* variables, constraints and status are as before the call, and the solver is
\* not invoked
C28_IncrementUnsolvedRaises ==
    [][/\ IncrementUnsolved => (RaisesUnchanged /\ model'.status = model.status /\ solver' = solver)
       /\ IncrementUnsolvedInRun => RaisesUnchanged]_vars

\* increment_time has raised on a model that an INFEASIBLE solve left with an LP
C28_RaisedOnInfeasible ==
    /\ pc = "error"
    /\ raised = "Exception"
    /\ calls = <<"optimize", "increment_time">>
    /\ model.status = INFEASIBLE
    /\ model.year = 2020
    /\ solver.solves = 1
    /\ model.variables.feedstock # <<>>

\* the initial tolerance times a power of ten
PowersOfTen == {InitialTolerance, InitialTolerance * 10, InitialTolerance * 100,
                InitialTolerance * 1000, InitialTolerance * 10000, InitialTolerance * 100000,
                InitialTolerance * 1000000, InitialTolerance * 10000000,
                InitialTolerance * 100000000}

\* a step multiplies the tolerance by ten when it retries an ABNORMAL status,
\* starts from the initial one when it constructs a Model, and keeps it otherwise
ToleranceStep ==
    IF pc = "solving" /\ model'.status = ABNORMAL /\ model.tolerance <= ToleranceCeiling
    THEN model'.tolerance = model.tolerance * 10
    ELSE IF pc \in {"start", "loaded"}
    THEN model'.tolerance = InitialTolerance
    ELSE model'.tolerance = model.tolerance

\* C29: the feasibility tolerance of a Model never decreases and is never
\* reset between years: after any sequence of optimize and increment_time
\* calls it equals its initial value 1e-6 times 10^k, where k is the number of
\* ABNORMAL statuses that were retried so far over all years, so retries used
\* in one year are no longer available to any later year
C29_ToleranceOnlyGrows == [](model.tolerance \in PowersOfTen) /\ [][ToleranceStep]_vars

\* a second call has been answered with the tolerance two retries have left
C29_RetriesCarriedOver ==
    /\ pc = "idle"
    /\ Len(calls) = 2
    /\ model.status = OPTIMAL
    /\ model.tolerance = InitialTolerance * 100
    /\ solver.solves = 4

\* an add_pathway call has failed: the feedstock is undefined (KeyError) or
\* the new fuel names an undefined fuel pool (TypeError)
AddPathwayFailed ==
    /\ Len(calls') > Len(calls)
    /\ calls'[Len(calls')] = "add_pathway"
    /\ raised' \in {"KeyError", "TypeError"}

\* C30: a ProductionPathway.add_pathway call that fails, because the feedstock
\* is undefined or because a new fuel names an undefined fuel pool, leaves
\* every registry unchanged: no Fuel, Credit, Feedstock or pathway entry has
\* been added by the failed call
C30_FailedAddPathwayAddsNothing == [][AddPathwayFailed => registry' = registry]_vars

====
